---- MODULE Spec2Model ----
(***************************************************************************)
(* Verification model of rdb_protocol/protocol.cc (src/unnamed/part_000):  *)
(* the secondary-index post-construction task and the shard functions of   *)
(* read_t and write_t.                                                     *)
(***************************************************************************)
EXTENDS Integers, Sequences, FiniteSets, TLC

\* ------------------------------------------------------------------ bounds
NumKeys == 2
MaxVal == 2
MaxWrites == 3
NumIndexes == 2
MaxBackfills == 1
\* const int MAX_CHUNK_SIZE = 10;
MAX_CHUNK_SIZE == 10

Keys == 1..NumKeys
Indexes == 1..NumIndexes
\* two build tasks at most run against one store in this model
Tasks == {1, 2}
Writer == 0
Backfiller == 9
NoOne == 8

VARIABLES
    primary,        \* the primary B-tree: key -> row value, 0 = no row
    index,          \* the secondary indexes: index -> set of <<key, entry>>
    ready,          \* index -> post-constructed (mark_index_up_to_date done)
    deleted,        \* index -> dropped from the sindex block
    targets,        \* task -> sindexes_to_bring_up_to_date
    sindex_queues,  \* store_t::sindex_queues: tasks whose mod queue is registered
    mod_queue,      \* task -> its internal_disk_backed_queue_t (FIFO of reports)
    pc,             \* task -> position in bring_sindexes_up_to_date / post_construct_and_drain_queue
    phase,          \* task -> "drain" (lines 204-275) or "cleanup" (lines 286-315)
    scanPos,        \* task -> number of keys the traversal has visited
    chunk,          \* task -> current_chunk_size
    accessible,     \* task -> the sindex_access_vector_t acquired at line 238
    drainSignal,    \* lock.get_drain_signal()->is_pulsed()
    tokenLine,      \* the store's write-token FIFO (fifo_enforcer)
    superblock,     \* holder of the superblock write lock
    sblockLine,     \* FIFO line of the sindex block; its head holds the write lock
    qmutexLine,     \* FIFO line of the sindex_queue_mutex; its head has been granted it
    rwLine,         \* FIFO line of store->backfill_postcon_lock
    drainerLocks,   \* tasks holding an auto_drainer_t::lock_t on store->drainer
    deregVia,       \* task -> how its queue registration was removed
    wpc, wreq, wreport, writesLeft,   \* the store's write path
    dropsLeft,                        \* sindex_drop operations still to come
    wdomain,                          \* the <<key, value>> pairs the writes draw from
    bpc, backfillsLeft, bAhead,       \* a backfill
    nCommits,       \* history: number of primary commits so far; commit n makes report n
    kinds,          \* history: kinds of the commits made while some queue was registered
    regAt,          \* history: task -> number of commits when its queue was registered
    hist,           \* history: task -> ids of the reports pushed to its queue, in order
    applied,        \* history: task -> ids of the reports the drain applied, in order
    shardOp,        \* the read_t / write_t handed to shard()
    shardRegions,   \* the shard regions it is sharded over, in call order
    shardOuts,      \* per call made so far: shard()'s return value and *read_out / *write_out
    unOp,           \* the read_t / write_t whose shard responses are unsharded
    responses,      \* the shard responses handed to unshard(), in shard order
    response_out,   \* *response_out after unshard(); kind "none" before the call
    fnCall,         \* a free function about to be called, with its arguments
    fnResult,       \* what the call returned; kind "none" before the call
    pool,           \* a pool_alloc_t: nobjects, object_size, mem, free_list and the next fields
    pool_out,       \* the blocks of the pool its user holds
    pool_last,      \* the last call made on the pool and what it returned
    allocs,         \* dynamic_pool_alloc_t::allocs[0..nallocs-1], as a sequence
    nallocs,        \* dynamic_pool_alloc_t::nallocs
    smallest_free,  \* dynamic_pool_alloc_t::smallest_free
    dyn_last,       \* the last call made on the dynamic pool and what it returned
    block_info,     \* fsck: knog->block_info, ser_block_id -> offset and transaction id
    fsck_file,      \* fsck: the blocks of the file, the patch lists, the metablock
    blk             \* fsck: the btree_block_t of the last init and what init returned

storeVars == <<primary, index, ready, deleted, sindex_queues, mod_queue>>
taskVars == <<targets, pc, phase, scanPos, chunk, accessible, deregVia>>
lockVars == <<tokenLine, superblock, sblockLine, qmutexLine, rwLine, drainerLocks>>
writerVars == <<wpc, wreq, wreport, writesLeft, dropsLeft, wdomain>>
backfillVars == <<bpc, backfillsLeft, bAhead>>
histVars == <<nCommits, kinds, regAt, hist, applied>>
postconVars == <<storeVars, taskVars, lockVars, writerVars, backfillVars, histVars, drainSignal>>
shardVars == <<shardOp, shardRegions, shardOuts>>
unshardVars == <<unOp, responses, response_out>>
callVars == <<fnCall, fnResult>>
poolVars == <<pool, pool_out, pool_last>>
dynVars == <<allocs, nallocs, smallest_free, dyn_last>>
fsckVars == <<block_info, fsck_file, blk>>
structVars == <<poolVars, dynVars, fsckVars>>
libVars == <<callVars, structVars>>
vars == <<postconVars, shardVars, unshardVars, libVars>>

\* no free function is being called
CallIdle == fnCall = [kind |-> "none"] /\ fnResult = [kind |-> "none"]
\* no allocator and no file is under test
PoolIdle == pool = [kind |-> "none"] /\ pool_out = {} /\ pool_last = [op |-> "none"]
DynIdle == allocs = <<>> /\ nallocs = 0 /\ smallest_free = 0 /\ dyn_last = [op |-> "none"]
FsckIdle == block_info = <<>> /\ fsck_file = [kind |-> "none"] /\ blk = [kind |-> "none"]
StructIdle == PoolIdle /\ DynIdle /\ FsckIdle
LibIdle == CallIdle /\ StructIdle

\* ----------------------------------------------------------------- helpers
RemoveFrom(line, a) == SelectSeq(line, LAMBDA x : x /= a)
InLine(line, a) == \E n \in 1..Len(line) : line[n] = a
AtHead(line, a) == line /= <<>> /\ Head(line) = a
Range(s) == {s[n] : n \in 1..Len(s)}

\* The index function of index i applied to a row value (a user-defined mapping;
\* index 1 is not injective, so distinct rows may share an entry).
IndexFn(i, v) == IF i = 1 THEN v % 2 ELSE v + 10

\* rdb_update_sindexes: delete the entry of the old row, then add the entry of the new one
ApplyReport(idx, i, r) ==
    LET afterDel == IF r.old /= 0 THEN idx \ {<<r.key, IndexFn(i, r.old)>>} ELSE idx
    IN  IF r.new /= 0 THEN afterDel \cup {<<r.key, IndexFn(i, r.new)>>} ELSE afterDel

\* the process is gone once an exception has left a THROWS_NOTHING function
Alive == \A t \in Tasks : pc[t] /= "aborted"

NoReport == [id |-> 0, key |-> 0, old |-> 0, new |-> 0]

KindOf(r) == IF r.old = 0 THEN "insert" ELSE IF r.new = 0 THEN "delete" ELSE "update"

\* some build task has been requested and has not ended
BuildPending == \E t \in Tasks : targets[t] /= {} /\ pc[t] /= "done"

\* ------------------------------------------------------------------- Init
\* Four situations are explored: one task building every index under a stream
\* of writes; one task whose target indexes are dropped meanwhile; two tasks of
\* one index each beside a backfill; and one task whose queue outgrows a chunk,
\* under writes that insert and delete one row in turn.
AnyWrite == Keys \X (0..MaxVal)

Scenarios ==
    { [targets |-> [t \in Tasks |-> IF t = 1 THEN Indexes ELSE {}],
       writes |-> MaxWrites, drops |-> 0, backfills |-> 0, domain |-> AnyWrite],
      [targets |-> [t \in Tasks |-> IF t = 1 THEN Indexes ELSE {}],
       writes |-> 1, drops |-> NumIndexes, backfills |-> 0, domain |-> AnyWrite],
      [targets |-> [t \in Tasks |-> IF t \in Indexes THEN {t} ELSE {}],
       writes |-> 1, drops |-> 0, backfills |-> MaxBackfills, domain |-> AnyWrite],
      [targets |-> [t \in Tasks |-> IF t = 1 THEN {1} ELSE {}],
       writes |-> MAX_CHUNK_SIZE + 1, drops |-> 0, backfills |-> 0,
       domain |-> {NumKeys} \X {0, 1}] }

InitPostCon(sc) ==
    /\ primary = [k \in Keys |-> IF k < NumKeys THEN 1 ELSE 0]
    /\ index = [i \in Indexes |-> {}]
    /\ ready = [i \in Indexes |-> FALSE]
    /\ deleted = [i \in Indexes |-> FALSE]
    /\ targets = sc.targets
    /\ writesLeft = sc.writes
    /\ dropsLeft = sc.drops
    /\ wdomain = sc.domain
    /\ backfillsLeft = sc.backfills
    /\ sindex_queues = {}
    /\ mod_queue = [t \in Tasks |-> <<>>]
    /\ pc = [t \in Tasks |-> "idle"]
    /\ phase = [t \in Tasks |-> "drain"]
    /\ scanPos = [t \in Tasks |-> 0]
    /\ chunk = [t \in Tasks |-> 0]
    /\ accessible = [t \in Tasks |-> {}]
    /\ deregVia = [t \in Tasks |-> "none"]
    /\ drainSignal = FALSE
    /\ tokenLine = <<>>
    /\ superblock = NoOne
    /\ sblockLine = <<>>
    /\ qmutexLine = <<>>
    /\ rwLine = <<>>
    /\ drainerLocks = {}
    /\ wpc = "idle"
    /\ wreq = [key |-> 0, val |-> 0]
    /\ wreport = NoReport
    /\ bpc = "idle"
    /\ bAhead = {}
    /\ nCommits = 0
    /\ kinds = {}
    /\ regAt = [t \in Tasks |-> 0]
    /\ hist = [t \in Tasks |-> <<>>]
    /\ applied = [t \in Tasks |-> <<>>]

\* a store under construction work; no operation is being sharded
Init ==
    /\ \E sc \in Scenarios : InitPostCon(sc)
    /\ shardOp = [kind |-> "none"]
    /\ shardRegions = <<>>
    /\ shardOuts = <<>>
    /\ unOp = [kind |-> "none"]
    /\ responses = <<>>
    /\ response_out = [kind |-> "none"]
    /\ LibIdle

\* --------------------------------------------------- the post-construction task
\* bring_sindexes_up_to_date: take a drainer lock, create the queue, register it
\* under the caller's sindex block, spawn post_construct_and_drain_queue.
bring_up_to_date_body(t, registers) ==
    /\ Alive
    /\ pc[t] = "idle"
    /\ targets[t] /= {}
    /\ ~drainSignal
    /\ \A i \in targets[t] : ~deleted[i]
    /\ sblockLine = <<>>
    /\ qmutexLine = <<>>
    /\ drainerLocks' = drainerLocks \cup {t}
    /\ sindex_queues' = IF registers THEN sindex_queues \cup {t} ELSE sindex_queues
    /\ regAt' = [regAt EXCEPT ![t] = nCommits]
    /\ pc' = [pc EXCEPT ![t] = "spawned"]
    /\ UNCHANGED <<shardVars, unshardVars, libVars, primary, index, ready, deleted, mod_queue, targets, phase, scanPos,
                   chunk, accessible, deregVia, tokenLine, superblock, sblockLine,
                   qmutexLine, rwLine, writerVars, backfillVars, nCommits, kinds,
                   hist, applied, drainSignal>>

\* a registration that never reaches the store
bring_without_register(t) == bring_up_to_date_body(t, FALSE)

bring_sindexes_up_to_date(t) == bring_up_to_date_body(t, TRUE)

\* post_construct_and_drain_queue, lines 189-200: the coroutine starts and puts a
\* write acquisition in line on backfill_postcon_lock, without waiting for it.
task_start_body(t, inLine) ==
    /\ Alive
    /\ pc[t] = "spawned"
    /\ rwLine' = IF inLine THEN Append(rwLine, t) ELSE rwLine
    /\ pc' = [pc EXCEPT ![t] = "scan"]
    /\ UNCHANGED <<shardVars, unshardVars, libVars, storeVars, targets, phase, scanPos, chunk, accessible, deregVia,
                   tokenLine, superblock, sblockLine, qmutexLine, drainerLocks,
                   writerVars, backfillVars, histVars, drainSignal>>

\* a task that leaves backfill_postcon_lock alone
TaskStartNotInLine(t) == task_start_body(t, FALSE)

TaskStart(t) == task_start_body(t, TRUE)

LiveTargets(t) == {i \in targets[t] : ~deleted[i]}

\* post_construct_secondary_indexes: the traversal visits the next key and writes
\* the entry of the row it finds there into every live target index.
ScanVisit(t) ==
    /\ Alive
    /\ pc[t] = "scan"
    /\ ~drainSignal
    /\ LiveTargets(t) /= {}
    /\ scanPos[t] < NumKeys
    /\ LET k == scanPos[t] + 1
           v == primary[k]
       IN  /\ index' = [i \in Indexes |->
                          IF i \in LiveTargets(t) /\ v /= 0
                          THEN index[i] \cup {<<k, IndexFn(i, v)>>}
                          ELSE index[i]]
    /\ scanPos' = [scanPos EXCEPT ![t] = scanPos[t] + 1]
    /\ UNCHANGED <<shardVars, unshardVars, libVars, primary, ready, deleted, sindex_queues, mod_queue, targets, pc, phase,
                   chunk, accessible, deregVia, lockVars, writerVars, backfillVars,
                   histVars, drainSignal>>

\* the traversal returns normally (line 200)
ScanReturn(t) ==
    /\ Alive
    /\ pc[t] = "scan"
    /\ scanPos[t] = NumKeys
    /\ pc' = [pc EXCEPT ![t] = "loop"]
    /\ UNCHANGED <<shardVars, unshardVars, libVars, storeVars, targets, phase, scanPos, chunk, accessible, deregVia,
                   lockVars, writerVars, backfillVars, histVars, drainSignal>>

\* the traversal throws interrupted_exc_t: the drain signal fired, or every target
\* index is gone; caught at line 276
ScanInterrupted(t) ==
    /\ Alive
    /\ pc[t] = "scan"
    /\ drainSignal \/ LiveTargets(t) = {}
    /\ pc' = [pc EXCEPT ![t] = "cleanup"]
    /\ UNCHANGED <<shardVars, unshardVars, libVars, storeVars, targets, phase, scanPos, chunk, accessible, deregVia,
                   lockVars, writerVars, backfillVars, histVars, drainSignal>>

\* line 204-206: the loop test, then coro_t::yield() while holding no lock
loop_check_body(t, testsSignal) ==
    /\ Alive
    /\ pc[t] = "loop"
    /\ pc' = [pc EXCEPT ![t] = IF testsSignal /\ drainSignal THEN "cleanup" ELSE "yielded"]
    /\ UNCHANGED <<shardVars, unshardVars, libVars, storeVars, targets, phase, scanPos, chunk, accessible, deregVia,
                   lockVars, writerVars, backfillVars, histVars, drainSignal>>

\* a loop that never tests the drain signal
LoopCheckBlind(t) == loop_check_body(t, FALSE)

LoopCheck(t) == loop_check_body(t, TRUE)

\* lines 208-227: new_write_token_pair and the entry of acquire_superblock_for_write.
\* wait_interruptible throws at once when the signal is already pulsed, passes at
\* once when the token is free, and blocks otherwise.
Resume(t) ==
    /\ Alive
    /\ pc[t] = "yielded"
    /\ IF drainSignal
       THEN /\ pc' = [pc EXCEPT ![t] = "cleanup"]
            /\ UNCHANGED tokenLine
       ELSE /\ tokenLine' = Append(tokenLine, t)
            /\ pc' = [pc EXCEPT ![t] = IF tokenLine = <<>> THEN "acq_super" ELSE "acq_token"]
    /\ UNCHANGED <<shardVars, unshardVars, libVars, storeVars, targets, phase, scanPos, chunk, accessible, deregVia,
                   superblock, sblockLine, qmutexLine, rwLine, drainerLocks,
                   writerVars, backfillVars, histVars, drainSignal>>

\* acquire_superblock_for_write: the write token is pulsed and the signal is not
TokenWake(t) ==
    /\ Alive
    /\ pc[t] = "acq_token"
    /\ AtHead(tokenLine, t)
    /\ ~drainSignal
    /\ pc' = [pc EXCEPT ![t] = "acq_super"]
    /\ UNCHANGED <<shardVars, unshardVars, libVars, storeVars, targets, phase, scanPos, chunk, accessible, deregVia,
                   lockVars, writerVars, backfillVars, histVars, drainSignal>>

\* acquire_superblock_for_write throws interrupted_exc_t while blocked on the token.
\* In the drain loop (line 220) the catch at line 276 takes it; at line 295 the
\* exception leaves the THROWS_NOTHING function and the process ends.
TokenInterrupted(t) ==
    /\ Alive
    /\ pc[t] = "acq_token"
    /\ drainSignal
    /\ IF phase[t] = "drain"
       THEN /\ tokenLine' = RemoveFrom(tokenLine, t)
            /\ pc' = [pc EXCEPT ![t] = "cleanup"]
       ELSE /\ UNCHANGED tokenLine
            /\ pc' = [pc EXCEPT ![t] = "aborted"]
    /\ UNCHANGED <<shardVars, unshardVars, libVars, storeVars, targets, phase, scanPos, chunk, accessible, deregVia,
                   superblock, sblockLine, qmutexLine, rwLine, drainerLocks,
                   writerVars, backfillVars, histVars, drainSignal>>

\* acquire_superblock_for_write returns: superblock write-locked, token given back
AcquireSuperblock(t) ==
    /\ Alive
    /\ pc[t] = "acq_super"
    /\ AtHead(tokenLine, t)
    /\ superblock = NoOne
    /\ superblock' = t
    /\ tokenLine' = Tail(tokenLine)
    /\ pc' = [pc EXCEPT ![t] = "acq_sblock"]
    /\ UNCHANGED <<shardVars, unshardVars, libVars, storeVars, targets, phase, scanPos, chunk, accessible, deregVia,
                   sblockLine, qmutexLine, rwLine, drainerLocks,
                   writerVars, backfillVars, histVars, drainSignal>>

\* lines 229-235 and 304-310: get in line for the sindex block, release the superblock
AcquireSindexBlock(t) ==
    /\ Alive
    /\ pc[t] = "acq_sblock"
    /\ sblockLine' = Append(sblockLine, t)
    /\ superblock' = NoOne
    /\ pc' = [pc EXCEPT ![t] = IF phase[t] = "drain" THEN "acq_sindexes" ELSE "c_in_line"]
    /\ UNCHANGED <<shardVars, unshardVars, libVars, storeVars, targets, phase, scanPos, chunk, accessible, deregVia,
                   tokenLine, qmutexLine, rwLine, drainerLocks,
                   writerVars, backfillVars, histVars, drainSignal>>

\* lines 237-248: acquire_sindex_superblocks_for_write under the sindex block;
\* break when no target index is left, else get in line for the sindex queue
AcquireSindexes(t) ==
    /\ Alive
    /\ pc[t] = "acq_sindexes"
    /\ AtHead(sblockLine, t)
    /\ IF LiveTargets(t) = {}
       THEN /\ sblockLine' = Tail(sblockLine)
            /\ pc' = [pc EXCEPT ![t] = "cleanup"]
            /\ UNCHANGED <<accessible, qmutexLine>>
       ELSE /\ accessible' = [accessible EXCEPT ![t] = LiveTargets(t)]
            /\ qmutexLine' = Append(qmutexLine, t)
            /\ pc' = [pc EXCEPT ![t] = "wait_acq"]
            /\ UNCHANGED sblockLine
    /\ UNCHANGED <<shardVars, unshardVars, libVars, storeVars, targets, phase, scanPos, chunk, deregVia,
                   tokenLine, superblock, rwLine, drainerLocks,
                   writerVars, backfillVars, histVars, drainSignal>>

\* lines 251-254: acq->acq_signal()->wait_lazily_unordered(); current_chunk_size = 0
WaitAcq(t) ==
    /\ Alive
    /\ pc[t] = "wait_acq"
    /\ AtHead(qmutexLine, t)
    /\ chunk' = [chunk EXCEPT ![t] = 0]
    /\ pc' = [pc EXCEPT ![t] = "chunk"]
    /\ UNCHANGED <<shardVars, unshardVars, libVars, storeVars, targets, phase, scanPos, accessible, deregVia,
                   lockVars, writerVars, backfillVars, histVars, drainSignal>>

\* lines 255-265: one iteration of the chunk loop: pop a report, apply it to the
\* acquired indexes
drain_pop_body(t, fromFront, applies) ==
    /\ Alive
    /\ pc[t] = "chunk"
    /\ chunk[t] < MAX_CHUNK_SIZE
    /\ Len(mod_queue[t]) > 0
    /\ LET q == mod_queue[t]
           r == IF fromFront THEN Head(q) ELSE q[Len(q)]
           rest == IF fromFront THEN Tail(q) ELSE SubSeq(q, 1, Len(q) - 1)
       IN  /\ mod_queue' = [mod_queue EXCEPT ![t] = rest]
           /\ index' = [i \in Indexes |->
                          IF applies /\ i \in accessible[t]
                          THEN ApplyReport(index[i], i, r) ELSE index[i]]
           /\ applied' = [applied EXCEPT ![t] = Append(applied[t], r.id)]
    /\ chunk' = [chunk EXCEPT ![t] = chunk[t] + 1]
    /\ UNCHANGED <<shardVars, unshardVars, libVars, primary, ready, deleted, sindex_queues, targets, pc, phase, scanPos,
                   accessible, deregVia, lockVars, writerVars, backfillVars,
                   nCommits, kinds, regAt, hist, drainSignal>>

\* a drain that takes the newest report first
DrainPopNewest(t) == drain_pop_body(t, FALSE, TRUE)

\* a drain that pops without calling rdb_update_sindexes
DrainPopDiscard(t) == drain_pop_body(t, TRUE, FALSE)

\* a chunk loop that tests the size of the queue only
DrainPopPastChunk(t) ==
    /\ Alive
    /\ pc[t] = "chunk"
    /\ Len(mod_queue[t]) > 0
    /\ mod_queue' = [mod_queue EXCEPT ![t] = Tail(mod_queue[t])]
    /\ index' = [i \in Indexes |->
                   IF i \in accessible[t]
                   THEN ApplyReport(index[i], i, Head(mod_queue[t])) ELSE index[i]]
    /\ applied' = [applied EXCEPT ![t] = Append(applied[t], Head(mod_queue[t]).id)]
    /\ chunk' = [chunk EXCEPT ![t] = chunk[t] + 1]
    /\ UNCHANGED <<shardVars, unshardVars, libVars, primary, ready, deleted, sindex_queues, targets, pc, phase, scanPos,
                   accessible, deregVia, lockVars, writerVars, backfillVars,
                   nCommits, kinds, regAt, hist, drainSignal>>

DrainPop(t) == drain_pop_body(t, TRUE, TRUE)

\* lines 255 and 267-275: the chunk loop ends; on an empty queue mark every target
\* up to date, else release what the iteration acquired and loop
final_check_body(t, needsEmpty) ==
    /\ Alive
    /\ pc[t] = "chunk"
    /\ ~(chunk[t] < MAX_CHUNK_SIZE /\ Len(mod_queue[t]) > 0)
    /\ IF needsEmpty => Len(mod_queue[t]) = 0
       THEN /\ ready' = [i \in Indexes |-> ready[i] \/ (i \in targets[t] /\ ~deleted[i])]
            /\ pc' = [pc EXCEPT ![t] = "dereg"]
            /\ UNCHANGED <<qmutexLine, sblockLine, accessible>>
       ELSE /\ qmutexLine' = Tail(qmutexLine)
            /\ sblockLine' = Tail(sblockLine)
            /\ accessible' = [accessible EXCEPT ![t] = {}]
            /\ pc' = [pc EXCEPT ![t] = "loop"]
            /\ UNCHANGED ready
    /\ UNCHANGED <<shardVars, unshardVars, libVars, primary, index, deleted, sindex_queues, mod_queue, targets, phase,
                   scanPos, chunk, deregVia, tokenLine, superblock, rwLine, drainerLocks,
                   writerVars, backfillVars, histVars, drainSignal>>

\* a finalize that does not look at the queue's size
FinalCheckAnySize(t) == final_check_body(t, FALSE)

FinalCheck(t) == final_check_body(t, TRUE)

\* lines 272-273: deregister_sindex_queue, return (every local is released)
Deregister(t) ==
    /\ Alive
    /\ pc[t] = "dereg"
    /\ AtHead(qmutexLine, t)
    /\ sindex_queues' = sindex_queues \ {t}
    /\ deregVia' = [deregVia EXCEPT ![t] = "standard"]
    /\ qmutexLine' = Tail(qmutexLine)
    /\ sblockLine' = RemoveFrom(sblockLine, t)
    /\ rwLine' = RemoveFrom(rwLine, t)
    /\ drainerLocks' = drainerLocks \ {t}
    /\ accessible' = [accessible EXCEPT ![t] = {}]
    /\ pc' = [pc EXCEPT ![t] = "done"]
    /\ UNCHANGED <<shardVars, unshardVars, libVars, primary, index, ready, deleted, mod_queue, targets, phase, scanPos,
                   chunk, tokenLine, superblock, writerVars, backfillVars, histVars,
                   drainSignal>>

\* line 281-302: after the loop or the catch. Pulsed: emergency_deregister gets in
\* line for the queue mutex. Not pulsed: the targets were all deleted, deregister
\* the standard way, starting with acquire_superblock_for_write.
cleanup_check_body(t, pulsed) ==
    /\ Alive
    /\ pc[t] = "cleanup"
    /\ IF pulsed
       THEN /\ qmutexLine' = Append(qmutexLine, t)
            /\ pc' = [pc EXCEPT ![t] = "emergency"]
            /\ UNCHANGED <<tokenLine, phase>>
       ELSE /\ tokenLine' = Append(tokenLine, t)
            /\ phase' = [phase EXCEPT ![t] = "cleanup"]
            /\ pc' = [pc EXCEPT ![t] = IF tokenLine = <<>> THEN "acq_super" ELSE "acq_token"]
            /\ UNCHANGED qmutexLine
    /\ UNCHANGED <<shardVars, unshardVars, libVars, storeVars, targets, scanPos, chunk, accessible, deregVia,
                   superblock, sblockLine, rwLine, drainerLocks,
                   writerVars, backfillVars, histVars, drainSignal>>

CleanupCheck(t) == cleanup_check_body(t, drainSignal)

\* line 285: emergency_deregister_sindex_queue, needing the queue mutex only; return
EmergencyDeregister(t) ==
    /\ Alive
    /\ pc[t] = "emergency"
    /\ AtHead(qmutexLine, t)
    /\ sindex_queues' = sindex_queues \ {t}
    /\ deregVia' = [deregVia EXCEPT ![t] = "emergency"]
    /\ qmutexLine' = Tail(qmutexLine)
    /\ rwLine' = RemoveFrom(rwLine, t)
    /\ drainerLocks' = drainerLocks \ {t}
    /\ pc' = [pc EXCEPT ![t] = "done"]
    /\ UNCHANGED <<shardVars, unshardVars, libVars, primary, index, ready, deleted, mod_queue, targets, phase, scanPos,
                   chunk, accessible, tokenLine, superblock, sblockLine,
                   writerVars, backfillVars, histVars, drainSignal>>

\* lines 312-313: get_in_line_for_sindex_queue once the sindex block is acquired
CleanupGetInLine(t) ==
    /\ Alive
    /\ pc[t] = "c_in_line"
    /\ AtHead(sblockLine, t)
    /\ qmutexLine' = Append(qmutexLine, t)
    /\ pc' = [pc EXCEPT ![t] = "c_dereg"]
    /\ UNCHANGED <<shardVars, unshardVars, libVars, storeVars, targets, phase, scanPos, chunk, accessible, deregVia,
                   tokenLine, superblock, sblockLine, rwLine, drainerLocks,
                   writerVars, backfillVars, histVars, drainSignal>>

\* lines 314-316: deregister_sindex_queue, return
CleanupDeregister(t) ==
    /\ Alive
    /\ pc[t] = "c_dereg"
    /\ AtHead(qmutexLine, t)
    /\ sindex_queues' = sindex_queues \ {t}
    /\ deregVia' = [deregVia EXCEPT ![t] = "standard"]
    /\ qmutexLine' = Tail(qmutexLine)
    /\ sblockLine' = RemoveFrom(sblockLine, t)
    /\ rwLine' = RemoveFrom(rwLine, t)
    /\ drainerLocks' = drainerLocks \ {t}
    /\ pc' = [pc EXCEPT ![t] = "done"]
    /\ UNCHANGED <<shardVars, unshardVars, libVars, primary, index, ready, deleted, mod_queue, targets, phase, scanPos,
                   chunk, accessible, tokenLine, superblock, writerVars, backfillVars,
                   histVars, drainSignal>>

\* ------------------------------------------------------------ the environment
\* the store's drainer begins to drain
FireDrainSignal ==
    /\ Alive
    /\ ~drainSignal
    /\ BuildPending
    /\ drainSignal' = TRUE
    /\ UNCHANGED <<shardVars, unshardVars, libVars, storeVars, taskVars, lockVars, writerVars, backfillVars, histVars>>

\* a write: a write token, the superblock, then the sindex block, in that order
WriteBegin(k, v) ==
    /\ Alive
    /\ wpc = "idle"
    /\ BuildPending
    /\ writesLeft > 0
    /\ <<k, v>> \in wdomain
    /\ v /= primary[k]
    /\ wreq' = [key |-> k, val |-> v]
    /\ writesLeft' = writesLeft - 1
    /\ tokenLine' = Append(tokenLine, Writer)
    /\ wpc' = "acq"
    /\ UNCHANGED <<shardVars, unshardVars, libVars, storeVars, taskVars, superblock, sblockLine, qmutexLine, rwLine,
                   drainerLocks, wreport, dropsLeft, wdomain, backfillVars, histVars, drainSignal>>

WriteAcquire ==
    /\ Alive
    /\ wpc = "acq"
    /\ AtHead(tokenLine, Writer)
    /\ superblock = NoOne
    /\ tokenLine' = Tail(tokenLine)
    /\ sblockLine' = Append(sblockLine, Writer)
    /\ wpc' = "commit"
    /\ UNCHANGED <<shardVars, unshardVars, libVars, storeVars, taskVars, superblock, qmutexLine, rwLine, drainerLocks,
                   wreq, wreport, writesLeft, dropsLeft, wdomain, backfillVars, histVars, drainSignal>>

\* the primary commit, under the sindex block write lock
WriteCommit ==
    /\ Alive
    /\ wpc = "commit"
    /\ AtHead(sblockLine, Writer)
    /\ LET r == [id |-> nCommits + 1, key |-> wreq.key,
                 old |-> primary[wreq.key], new |-> wreq.val]
       IN  /\ wreport' = r
           /\ kinds' = IF sindex_queues = {} THEN kinds ELSE kinds \cup {KindOf(r)}
    /\ primary' = [primary EXCEPT ![wreq.key] = wreq.val]
    /\ nCommits' = nCommits + 1
    /\ wpc' = "enqueue"
    /\ UNCHANGED <<shardVars, unshardVars, libVars, index, ready, deleted, sindex_queues, mod_queue, taskVars, lockVars,
                   wreq, writesLeft, dropsLeft, wdomain, backfillVars, regAt, hist, applied,
                   drainSignal>>

\* sindex_queue_push: the report is appended to every registered queue under the
\* queue mutex, still under the sindex block; then the write releases both
WriteEnqueue ==
    /\ Alive
    /\ wpc = "enqueue"
    /\ qmutexLine = <<>>
    /\ mod_queue' = [t \in Tasks |->
                       IF t \in sindex_queues THEN Append(mod_queue[t], wreport)
                       ELSE mod_queue[t]]
    /\ hist' = [t \in Tasks |->
                  IF t \in sindex_queues THEN Append(hist[t], wreport.id) ELSE hist[t]]
    /\ sblockLine' = Tail(sblockLine)
    /\ wpc' = "idle"
    /\ UNCHANGED <<shardVars, unshardVars, libVars, primary, index, ready, deleted, sindex_queues, taskVars, tokenLine,
                   superblock, qmutexLine, rwLine, drainerLocks, wreq, wreport,
                   writesLeft, dropsLeft, wdomain, backfillVars, nCommits, kinds, regAt,
                   applied, drainSignal>>

\* sindex_drop of an existing index, under the sindex block
DropIndex(i) ==
    /\ Alive
    /\ dropsLeft > 0
    /\ ~deleted[i]
    /\ \E t \in Tasks : i \in targets[t] /\ pc[t] \notin {"idle", "done"}
    /\ sblockLine = <<>>
    /\ deleted' = [deleted EXCEPT ![i] = TRUE]
    /\ dropsLeft' = dropsLeft - 1
    /\ UNCHANGED <<shardVars, unshardVars, libVars, primary, index, ready, sindex_queues, mod_queue, taskVars, lockVars,
                   wpc, wreq, wreport, writesLeft, wdomain, backfillVars, histVars, drainSignal>>

\* between its first statement and its return a task runs post_construct_and_drain_queue
TaskRunning(t) == pc[t] \notin {"idle", "spawned", "done", "aborted"}

\* a backfill takes backfill_postcon_lock exclusively and waits for it
BackfillRequest ==
    /\ Alive
    /\ bpc = "idle"
    /\ BuildPending
    /\ backfillsLeft > 0
    /\ backfillsLeft' = backfillsLeft - 1
    /\ rwLine' = Append(rwLine, Backfiller)
    /\ bAhead' = {t \in Tasks : TaskRunning(t)}
    /\ bpc' = "waiting"
    /\ UNCHANGED <<shardVars, unshardVars, libVars, storeVars, taskVars, tokenLine, superblock, sblockLine, qmutexLine,
                   drainerLocks, writerVars, histVars, drainSignal>>

BackfillStart ==
    /\ Alive
    /\ bpc = "waiting"
    /\ AtHead(rwLine, Backfiller)
    /\ bpc' = "running"
    /\ UNCHANGED <<shardVars, unshardVars, libVars, storeVars, taskVars, lockVars, writerVars, backfillsLeft, bAhead,
                   histVars, drainSignal>>

BackfillEnd ==
    /\ Alive
    /\ bpc = "running"
    /\ rwLine' = RemoveFrom(rwLine, Backfiller)
    /\ bpc' = "idle"
    /\ UNCHANGED <<shardVars, unshardVars, libVars, storeVars, taskVars, tokenLine, superblock, sblockLine, qmutexLine,
                   drainerLocks, writerVars, backfillsLeft, bAhead, histVars, drainSignal>>

Next ==
    \/ \E t \in Tasks : bring_sindexes_up_to_date(t)
    \/ \E t \in Tasks : TaskStart(t)
    \/ \E t \in Tasks : ScanVisit(t)
    \/ \E t \in Tasks : ScanReturn(t)
    \/ \E t \in Tasks : ScanInterrupted(t)
    \/ \E t \in Tasks : LoopCheck(t)
    \/ \E t \in Tasks : Resume(t)
    \/ \E t \in Tasks : TokenWake(t)
    \/ \E t \in Tasks : TokenInterrupted(t)
    \/ \E t \in Tasks : AcquireSuperblock(t)
    \/ \E t \in Tasks : AcquireSindexBlock(t)
    \/ \E t \in Tasks : AcquireSindexes(t)
    \/ \E t \in Tasks : WaitAcq(t)
    \/ \E t \in Tasks : DrainPop(t)
    \/ \E t \in Tasks : FinalCheck(t)
    \/ \E t \in Tasks : Deregister(t)
    \/ \E t \in Tasks : CleanupCheck(t)
    \/ \E t \in Tasks : EmergencyDeregister(t)
    \/ \E t \in Tasks : CleanupGetInLine(t)
    \/ \E t \in Tasks : CleanupDeregister(t)
    \/ FireDrainSignal
    \/ \E k \in Keys, v \in 0..MaxVal : WriteBegin(k, v)
    \/ WriteAcquire
    \/ WriteCommit
    \/ WriteEnqueue
    \/ \E i \in Indexes : DropIndex(i)
    \/ BackfillRequest
    \/ BackfillStart
    \/ BackfillEnd

Spec == Init /\ [][Next]_vars

\* ------------------------------------------------------- post-construction claims
\* the locks task t holds or stands in line for
HeldLocks(t) ==
    {l \in {"write_token", "superblock", "sindex_block", "sindex_queue",
            "backfill_postcon", "drainer"} :
        \/ l = "write_token" /\ InLine(tokenLine, t)
        \/ l = "superblock" /\ superblock = t
        \/ l = "sindex_block" /\ InLine(sblockLine, t)
        \/ l = "sindex_queue" /\ InLine(qmutexLine, t)
        \/ l = "backfill_postcon" /\ InLine(rwLine, t)
        \/ l = "drainer" /\ t \in drainerLocks}

\* the ids of the reports waiting in task t's queue, in order
QueuedIds(t) == [n \in 1..Len(mod_queue[t]) |-> mod_queue[t][n].id]

\* the index that evaluating index i's function on every primary row gives
ExpectedIndex(i) == {<<k, IndexFn(i, primary[k])>> : k \in {x \in Keys : primary[x] /= 0}}

\* C1: when the targets are marked ready the scan has visited every key and the
\* drain has applied every commit made since the queue was registered; and while
\* a queue is registered, every commit made since its registration has been pushed
\* to it, or is the commit of the write that is about to push.
C1_AtLeastOnce ==
    /\ \A t \in Tasks : pc[t] = "dereg" =>
          /\ scanPos[t] = NumKeys
          /\ \A c \in (regAt[t] + 1)..nCommits : c \in Range(applied[t])
    /\ \A t \in sindex_queues : \A c \in (regAt[t] + 1)..nCommits :
          c \in Range(hist[t]) \/ (wpc = "enqueue" /\ wreport.id = c)

C1_Witness ==
    \E t \in Tasks : pc[t] = "dereg" /\ regAt[t] >= 1 /\ Len(applied[t]) >= 2

\* C2: at finalize every live target index holds exactly the entries of the
\* primary rows present then.
C2_IndexMatchesPrimary ==
    \A t \in Tasks : pc[t] = "dereg" =>
        \A i \in LiveTargets(t) : index[i] = ExpectedIndex(i)

C2_Witness ==
    \E t \in Tasks : /\ pc[t] = "dereg"
                     /\ kinds = {"insert", "update", "delete"}
                     /\ Len(applied[t]) >= 3

\* C3: a target is ready only once its task has finalized; from the marking to the
\* deregistration the queue is empty and still registered, and the task holds the
\* sindex block and has been granted the sindex-queue lock; after its return the
\* queue is no longer registered.
C3_FinalizeUnderLocks ==
    \A t \in Tasks :
        /\ (\E i \in targets[t] : ready[i]) => pc[t] \in {"dereg", "done"}
        /\ pc[t] = "dereg" =>
              /\ Len(mod_queue[t]) = 0
              /\ AtHead(sblockLine, t)
              /\ AtHead(qmutexLine, t)
              /\ t \in sindex_queues
        /\ pc[t] = "done" => t \notin sindex_queues

\* finalized while a write stands in line for the sindex block
C3_Witness ==
    \E t \in Tasks : /\ pc[t] = "dereg"
                     /\ Len(applied[t]) >= 1
                     /\ wpc = "commit"
                     /\ InLine(sblockLine, Writer)

\* C4: the reports applied so far followed by the reports still queued are the
\* reports in the order the store pushed them, which is the order of the commits.
C4_QueueOrder ==
    \A t \in Tasks :
        /\ hist[t] = applied[t] \o QueuedIds(t)
        /\ \A m, n \in 1..Len(hist[t]) : m < n => hist[t][m] < hist[t][n]

\* more reports than keys were pushed, so two of them are for one key
C4_Witness ==
    \E t \in Tasks : Len(hist[t]) > NumKeys /\ Len(applied[t]) >= 2

\* C5 as stated: once the drain signal has fired no target is marked ready and
\* no queue is deregistered the standard way.
C5_Original ==
    [][drainSignal =>
          /\ ready' = ready
          /\ \A t \in Tasks : deregVia'[t] /= deregVia[t] => deregVia'[t] = "emergency"]_vars

\* C5 amended: a task that finds the drain signal fired in the scan, at the loop
\* test or while blocked in acquire_superblock_for_write of a drain iteration goes
\* to the cleanup, which takes the emergency deregistration; such a task has marked
\* no target ready and marks none afterwards.
C5_ObservedSignal ==
    /\ [][\A t \in Tasks : drainSignal /\ pc'[t] /= pc[t] =>
            /\ pc[t] = "scan" => pc'[t] \in {"cleanup", "loop"}
            /\ pc[t] \in {"loop", "yielded"} => pc'[t] = "cleanup"
            /\ (pc[t] = "acq_token" /\ phase[t] = "drain") => pc'[t] = "cleanup"
            /\ pc[t] = "cleanup" => pc'[t] = "emergency"
            /\ pc[t] = "emergency" =>
                  pc'[t] = "done" /\ deregVia'[t] = "emergency" /\ ready' = ready]_vars
    /\ [](\A t \in Tasks : (pc[t] = "emergency" \/ deregVia[t] = "emergency") =>
            \A i \in targets[t] : ~ready[i])

\* an interrupted task left reports unapplied and deregistered the emergency way
C5_Witness ==
    \E t \in Tasks : deregVia[t] = "emergency" /\ Len(mod_queue[t]) > 0

\* C6: a task holds its drainer lock from registration to exit; after the drain
\* signal a task that has stopped has left through its exit and holds no lock.
C6_ExitsReleased ==
    \A t \in Tasks :
        /\ pc[t] \notin {"idle", "done"} => t \in drainerLocks
        /\ (drainSignal /\ pc[t] \in {"done", "aborted"}) =>
              pc[t] = "done" /\ HeldLocks(t) = {}

\* C7 as stated: no backfill runs while a post-construction task runs.
C7_Original == ~(bpc = "running" /\ \E t \in Tasks : TaskRunning(t))

\* C7 amended: a running task has its acquisition in line from its first statement
\* to its return, and a backfill is not granted the lock before every task that
\* was running when it asked has returned.
C7_BackfillWaitsForEarlierTasks ==
    /\ \A t \in Tasks : TaskRunning(t) => InLine(rwLine, t)
    /\ \A t \in Tasks : pc[t] = "done" => ~InLine(rwLine, t)
    /\ bpc = "running" => \A t \in bAhead : ~TaskRunning(t)

\* two tasks ran side by side; the backfill waited for the earlier one and now
\* runs beside the later one
C7_Witness ==
    /\ bpc = "running"
    /\ bAhead /= {}
    /\ \E t \in Tasks : TaskRunning(t) /\ t \notin bAhead

\* =========================================================== sharding
\* read_t::shard and write_t::shard: the part of an operation that falls to one
\* shard region.
MaxSKey == 1
HashSize == 2
MaxBatch == 3
MaxEls == 3

\* store keys, in key order; 0 is the empty key
SKeys == 0..MaxSKey
Hashes == 0..(HashSize - 1)
\* the fields of an operation the shard functions do not look at
Rests == {"r1", "r2"}

\* store_key_t(): the key of the sindex_list rendezvous region
sindex_list_region_key == 0

\* the divisor of a range read's batch size on its way to one CPU shard
CPU_SHARDING_FACTOR == 2

hash_region_hasher(k) == (k + 1) % HashSize

\* a key range: a bound on each side, open, closed or none
BoundKinds == {"none", "open", "closed"}

KeyRanges ==
    { kr \in [lb : BoundKinds, l : SKeys, rb : BoundKinds, r : SKeys] :
        (kr.lb = "none" => kr.l = 0) /\ (kr.rb = "none" => kr.r = 0) }

HashIntervals == { hi \in (0..HashSize) \X (0..HashSize) : hi[1] <= hi[2] }

\* hash_region_t<key_range_t>: [beg, end) x inner
Regions == { [beg |-> hi[1], end |-> hi[2], inner |-> kr] :
                hi \in HashIntervals, kr \in KeyRanges }

\* the regions operations carry: left bound closed or none, right bound open or none
OpRegions == { R \in Regions : R.inner.lb /= "open" /\ R.inner.rb /= "closed" }

universe == [beg |-> 0, end |-> HashSize,
             inner |-> [lb |-> "none", l |-> 0, rb |-> "none", r |-> 0]]

\* the first key a left bound admits, one past the last key a right bound admits
LeftEdge(kr) == IF kr.lb = "none" THEN 0 ELSE IF kr.lb = "closed" THEN kr.l ELSE kr.l + 1
RightEdge(kr) ==
    IF kr.rb = "none" THEN MaxSKey + 1 ELSE IF kr.rb = "open" THEN kr.r ELSE kr.r + 1

key_range_contains_key(kr, k) ==
    /\ kr.lb = "none" \/ (kr.lb = "closed" /\ kr.l <= k) \/ (kr.lb = "open" /\ kr.l < k)
    /\ kr.rb = "none" \/ (kr.rb = "closed" /\ k <= kr.r) \/ (kr.rb = "open" /\ k < kr.r)

key_range_is_empty(kr) == LeftEdge(kr) >= RightEdge(kr)

\* the tighter bound of the two on each side
key_range_intersection(a, b) ==
    LET left == IF LeftEdge(a) > LeftEdge(b) THEN a
                ELSE IF LeftEdge(b) > LeftEdge(a) THEN b
                ELSE IF a.lb = "none" THEN b ELSE a
        right == IF RightEdge(a) < RightEdge(b) THEN a
                 ELSE IF RightEdge(b) < RightEdge(a) THEN b
                 ELSE IF a.rb = "none" THEN b ELSE a
    IN  [lb |-> left.lb, l |-> left.l, rb |-> right.rb, r |-> right.r]

region_contains_key(region, key) ==
    /\ region.beg <= hash_region_hasher(key)
    /\ hash_region_hasher(key) < region.end
    /\ key_range_contains_key(region.inner, key)

region_is_empty(region) == region.beg >= region.end \/ key_range_is_empty(region.inner)

\* component-wise, keeping beg <= end
region_intersection(r1, r2) ==
    LET b == IF r1.beg > r2.beg THEN r1.beg ELSE r2.beg
        e == IF r1.end < r2.end THEN r1.end ELSE r2.end
    IN  [beg |-> b, end |-> IF e < b THEN b ELSE e,
         inner |-> key_range_intersection(r1.inner, r2.inner)]

\* batchspec_t::scale_down
scale_down(batchspec, divisor) ==
    IF batchspec \div divisor < 1 THEN 1 ELSE batchspec \div divisor

\* ------------------------------------------------------ the operations
KeyedReads == {"point_read", "changefeed_point_stamp"}
RangeyReads == {"changefeed_subscribe", "changefeed_stamp", "intersecting_geo_read",
                "nearest_geo_read", "distribution_read", "sindex_status"}
KeyedWrites == {"point_write", "point_delete"}
RangeyWrites == {"sindex_create", "sindex_drop", "sindex_rename", "sync"}
ReadKinds == KeyedReads \cup RangeyReads \cup {"rget_read", "sindex_list"}
WriteKinds == KeyedWrites \cup RangeyWrites \cup {"batched_replace", "batched_insert"}

\* the rows of a batched insert: a primary key and the rest of the document
Rows == [pk : SKeys, body : {"x", "y"}]
\* (*it)->get(bi.pkey)->print_primary()
print_primary(row) == row.pk

ListsOf(S) == UNION { [1..n -> S] : n \in 1..MaxBatch }

\* read_t, the profile flag being part of rest
ReadOps ==
    [kind : KeyedReads, key : SKeys, rest : Rests]
    \cup [kind : {"sindex_list"}, rest : Rests]
    \cup [kind : RangeyReads, region : OpRegions, rest : Rests]
    \cup [kind : {"rget_read"}, region : OpRegions, rest : Rests, batchspec : 1..MaxEls]

\* write_t, durability_requirement, profile and limits being part of rest
WriteOps ==
    [kind : KeyedWrites, key : SKeys, rest : Rests]
    \cup [kind : RangeyWrites, region : OpRegions, rest : Rests]
    \cup [kind : {"batched_replace"}, keys : ListsOf(SKeys), rest : Rests]
    \cup [kind : {"batched_insert"}, inserts : ListsOf(Rows), rest : Rests]

\* ways to cut the whole key space into shards: by hash, by key, by both
Below(k) == [lb |-> "none", l |-> 0, rb |-> "open", r |-> k]
From(k) == [lb |-> "closed", l |-> k, rb |-> "none", r |-> 0]
Shard(b, e, kr) == [beg |-> b, end |-> e, inner |-> kr]

Partitions ==
    { <<Shard(0, h, universe.inner), Shard(h, HashSize, universe.inner)>> :
        h \in 1..(HashSize - 1) }
    \cup { <<Shard(0, HashSize, Below(k)), Shard(0, HashSize, From(k))>> : k \in SKeys }
    \cup { <<Shard(0, hk[1], Below(hk[2])), Shard(0, hk[1], From(hk[2])),
             Shard(hk[1], HashSize, Below(hk[2])), Shard(hk[1], HashSize, From(hk[2]))>> :
             hk \in (1..(HashSize - 1)) \X SKeys }

ShardLists == { <<R>> : R \in Regions } \cup Partitions

\* -------------------------------------------------- rdb_r_shard_visitor_t
\* the visitor's return value and *payload_out, which a declining visitor
\* leaves as default-constructed
declined == [result |-> FALSE, payload |-> [kind |-> "default"]]

\* accepts on the hash interval alone
keyed_read_hash_only(region, arg, key) ==
    IF region.beg <= hash_region_hasher(key) /\ hash_region_hasher(key) < region.end
    THEN [result |-> TRUE, payload |-> arg]
    ELSE declined

keyed_read(region, arg, key) ==
    IF region_contains_key(region, key)
    THEN [result |-> TRUE, payload |-> arg]
    ELSE declined

\* hands the operation on with the region it came with
rangey_read_whole(region, arg) ==
    LET intersection == region_intersection(region, arg.region)
    IN  IF ~region_is_empty(intersection)
        THEN [result |-> TRUE, payload |-> arg]
        ELSE declined

rangey_read(region, arg) ==
    LET intersection == region_intersection(region, arg.region)
    IN  IF ~region_is_empty(intersection)
        THEN [result |-> TRUE, payload |-> [arg EXCEPT !.region = intersection]]
        ELSE declined

shard_rget_read(region, rg) ==
    LET do_read == rangey_read(region, rg)
    IN  IF do_read.result
        THEN [result |-> TRUE,
              payload |-> [do_read.payload EXCEPT
                             !.batchspec = scale_down(@, CPU_SHARDING_FACTOR)]]
        ELSE do_read

shard_sindex_list(region, sl) == keyed_read(region, sl, sindex_list_region_key)

rdb_r_shard_visitor_t(region, read) ==
    CASE read.kind \in KeyedReads -> keyed_read(region, read, read.key)
      [] read.kind \in RangeyReads -> rangey_read(region, read)
      [] read.kind = "rget_read" -> shard_rget_read(region, read)
      [] read.kind = "sindex_list" -> shard_sindex_list(region, read)

\* -------------------------------------------------- rdb_w_shard_visitor_t
keyed_write(region, arg) ==
    IF region_contains_key(region, arg.key)
    THEN [result |-> TRUE, payload |-> arg]
    ELSE declined

\* the loops of the batched visitors: push_back of every entry the region contains
RECURSIVE shard_keys(_, _)
shard_keys(region, keys) ==
    IF keys = <<>> THEN <<>>
    ELSE LET rest == shard_keys(region, Tail(keys))
         IN  IF region_contains_key(region, Head(keys)) THEN <<Head(keys)>> \o rest
             ELSE rest

RECURSIVE shard_inserts(_, _)
shard_inserts(region, inserts) ==
    IF inserts = <<>> THEN <<>>
    ELSE LET rest == shard_inserts(region, Tail(inserts))
         IN  IF region_contains_key(region, print_primary(Head(inserts)))
             THEN <<Head(inserts)>> \o rest
             ELSE rest

\* hands the whole key list to every shard that owns one of the keys
shard_batched_replace_whole(region, br) ==
    IF shard_keys(region, br.keys) /= <<>>
    THEN [result |-> TRUE, payload |-> br]
    ELSE declined

shard_batched_replace(region, br) ==
    IF shard_keys(region, br.keys) /= <<>>
    THEN [result |-> TRUE,
          payload |-> [kind |-> "batched_replace", keys |-> shard_keys(region, br.keys),
                       rest |-> br.rest]]
    ELSE declined

shard_batched_insert(region, bi) ==
    IF shard_inserts(region, bi.inserts) /= <<>>
    THEN [result |-> TRUE,
          payload |-> [kind |-> "batched_insert",
                       inserts |-> shard_inserts(region, bi.inserts),
                       rest |-> bi.rest]]
    ELSE declined

rangey_write(region, arg) ==
    LET intersection == region_intersection(region, arg.region)
    IN  IF ~region_is_empty(intersection)
        THEN [result |-> TRUE, payload |-> [arg EXCEPT !.region = intersection]]
        ELSE declined

rdb_w_shard_visitor_t(region, write) ==
    CASE write.kind \in KeyedWrites -> keyed_write(region, write)
      [] write.kind \in RangeyWrites -> rangey_write(region, write)
      [] write.kind = "batched_replace" -> shard_batched_replace(region, write)
      [] write.kind = "batched_insert" -> shard_batched_insert(region, write)

\* ------------------------------------------------------------ the calls
\* a store with no build to do, and an operation about to be sharded
NoBuild == [targets |-> [t \in Tasks |-> {}], writes |-> 0, drops |-> 0,
            backfills |-> 0, domain |-> {}]

InitShard ==
    /\ InitPostCon(NoBuild)
    /\ shardOp \in ReadOps \cup WriteOps
    /\ shardRegions \in ShardLists
    /\ shardOuts = <<>>
    /\ unOp = [kind |-> "none"]
    /\ responses = <<>>
    /\ response_out = [kind |-> "none"]
    /\ LibIdle

\* the region of the next call
NextRegion == shardRegions[Len(shardOuts) + 1]

\* bool read_t::shard(region, read_out)
read_shard ==
    /\ shardOp.kind \in ReadKinds
    /\ Len(shardOuts) < Len(shardRegions)
    /\ shardOuts' = Append(shardOuts, rdb_r_shard_visitor_t(NextRegion, shardOp))
    /\ UNCHANGED <<shardOp, shardRegions, postconVars, unshardVars, libVars>>

\* bool write_t::shard(region, write_out)
write_shard ==
    /\ shardOp.kind \in WriteKinds
    /\ Len(shardOuts) < Len(shardRegions)
    /\ shardOuts' = Append(shardOuts, rdb_w_shard_visitor_t(NextRegion, shardOp))
    /\ UNCHANGED <<shardOp, shardRegions, postconVars, unshardVars, libVars>>

NextShard ==
    \/ read_shard
    \/ write_shard

SpecShard == InitShard /\ [][NextShard]_vars

\* ------------------------------------------------------- sharding claims
\* a region as the set of <<hash, key>> points of its hash interval and key range
Points(R) ==
    { pt \in Hashes \X SKeys :
        /\ R.beg <= pt[1] /\ pt[1] < R.end
        /\ LeftEdge(R.inner) <= pt[2] /\ pt[2] < RightEdge(R.inner) }

Contains(R, k) == <<hash_region_hasher(k), k>> \in Points(R)

Calls == 1..Len(shardOuts)
KeyedKinds == KeyedReads \cup KeyedWrites \cup {"sindex_list"}
RangeyKinds == RangeyReads \cup RangeyWrites \cup {"rget_read"}
BatchedKinds == {"batched_replace", "batched_insert"}

\* the key a keyed operation is sharded by
ShardKey == IF shardOp.kind = "sindex_list" THEN 0 ELSE shardOp.key

\* C8: a keyed operation (point_read, point_write, point_delete, sindex_list,
\* changefeed_point_stamp) is returned unchanged by shard() exactly when the
\* region contains its key, by hash and by key range (the empty key for
\* sindex_list); otherwise shard() declines.
C8_KeyedShard ==
    shardOp.kind \in KeyedKinds =>
        \A j \in Calls :
            /\ shardOuts[j].result <=> Contains(shardRegions[j], ShardKey)
            /\ shardOuts[j].result => shardOuts[j].payload = shardOp

\* a keyed read declined by a region whose hash interval holds the key's hash,
\* and a sindex_list accepted by a region smaller than the universe
C8_Witness ==
    /\ shardOp.kind \in KeyedKinds
    /\ Len(shardOuts) = 1
    /\ \/ /\ shardOp.kind = "point_read"
          /\ ~shardOuts[1].result
          /\ shardRegions[1].beg <= hash_region_hasher(ShardKey)
          /\ hash_region_hasher(ShardKey) < shardRegions[1].end
       \/ /\ shardOp.kind = "sindex_list"
          /\ shardOuts[1].result
          /\ shardRegions[1].end - shardRegions[1].beg < HashSize

\* C9: a range-carrying operation is declined exactly when the shard region
\* and the operation's region have no point in common; otherwise shard()
\* returns the operation with its region replaced by the intersection, every
\* other field as it was, except a range read's batchspec, which is scaled down.
C9_RangeyShard ==
    shardOp.kind \in RangeyKinds =>
        \A j \in Calls :
            LET common == Points(shardRegions[j]) \cap Points(shardOp.region)
                out == shardOuts[j]
            IN  /\ out.result <=> common /= {}
                /\ out.result =>
                     /\ out.payload.region =
                            region_intersection(shardRegions[j], shardOp.region)
                     /\ Points(out.payload.region) = common
                     /\ IF shardOp.kind = "rget_read"
                        THEN /\ out.payload.batchspec =
                                    scale_down(shardOp.batchspec, CPU_SHARDING_FACTOR)
                             /\ [out.payload EXCEPT !.region = shardOp.region,
                                                    !.batchspec = shardOp.batchspec]
                                    = shardOp
                        ELSE [out.payload EXCEPT !.region = shardOp.region] = shardOp

\* a range read cut down to a region that is neither its own nor the shard's
C9_Witness ==
    /\ shardOp.kind = "rget_read"
    /\ Len(shardOuts) = 1
    /\ shardOuts[1].result
    /\ shardOuts[1].payload.region /= shardOp.region
    /\ shardOuts[1].payload.region /= shardRegions[1]
    /\ shardOuts[1].payload.batchspec < shardOp.batchspec

\* the entries of a batched write, and the key of one
Entries(op) == IF op.kind = "batched_replace" THEN op.keys ELSE op.inserts
EntryKey(e) == IF shardOp.kind = "batched_replace" THEN e ELSE print_primary(e)

\* every <<hash, key>> point lies in exactly one of the regions
IsPartition(regions) ==
    \A pt \in Hashes \X SKeys :
        Cardinality({ j \in DOMAIN regions : pt \in Points(regions[j]) }) = 1

\* C10: for batched_replace and batched_insert shard() returns the entries whose
\* key the region contains, in their original order, with the original
\* metadata, and declines exactly when there is none; over shard regions that
\* partition the key space every entry goes to exactly one shard.
C10_BatchedShard ==
    shardOp.kind \in BatchedKinds =>
        /\ \A j \in Calls :
              LET mine == SelectSeq(Entries(shardOp),
                                    LAMBDA e : Contains(shardRegions[j], EntryKey(e)))
                  out == shardOuts[j]
              IN  /\ out.result <=> mine /= <<>>
                  /\ out.result =>
                       /\ Entries(out.payload) = mine
                       /\ out.payload.kind = shardOp.kind
                       /\ out.payload.rest = shardOp.rest
        /\ (IsPartition(shardRegions) /\ Len(shardOuts) = Len(shardRegions)) =>
              /\ \A p \in DOMAIN Entries(shardOp) :
                    Cardinality({ j \in Calls :
                        /\ shardOuts[j].result
                        /\ \E q \in DOMAIN Entries(shardOuts[j].payload) :
                              Entries(shardOuts[j].payload)[q] = Entries(shardOp)[p] }) = 1
              /\ Cardinality(UNION { { <<j, q>> : q \in DOMAIN Entries(shardOuts[j].payload) } :
                                       j \in { c \in Calls : shardOuts[c].result } })
                    = Len(Entries(shardOp))

\* a batched insert spread over four shards: one takes two rows, one declines
C10_Witness ==
    /\ shardOp.kind = "batched_insert"
    /\ Len(shardRegions) = 4
    /\ Len(shardOuts) = 4
    /\ \E j \in Calls : ~shardOuts[j].result
    /\ \E j \in Calls :
          /\ shardOuts[j].result
          /\ Len(shardOuts[j].payload.inserts) = 2
          /\ Len(shardOp.inserts) = 3
          /\ shardOuts[j].payload.inserts[1] /= shardOuts[j].payload.inserts[2]

\* ------------------------------------------------------------------ unsharding
\* read_t::unshard and write_t::unshard compose the responses of the shards into
\* one response.  The inputs are small samples of what the storage engines can
\* answer; the operators below are the visitors' operator() bodies.
MaxShards == 2
MaxLastKey == 2
MaxLog == 1

ShardCounts == 1..MaxShards
Excs == {"exc1", "exc2"}
\* boost::get<ql::exc_t>(&result) != NULL
IsExc(result) == "exc" \in DOMAIN result
\* a response of the shard never asked for profiling: one event, one shard
PlainLog == <<"ev">>
Events == {"evA", "evB"}
EventLogs == UNION {[1..n -> Events] : n \in 0..MaxLog}
\* read_response_t / write_response_t around a payload
Wrap(payload) == [response |-> payload, event_log |-> PlainLog, n_shards |-> 1]
\* what *response_out holds when unshard() is entered: the caller's object,
\* fresh or left over from an earlier use
PriorResponses ==
    { [response |-> [kind |-> "unset"], event_log |-> <<>>, n_shards |-> 0],
      [response |-> [kind |-> "unset"], event_log |-> <<"stale">>, n_shards |-> 1] }
NotCalled == [kind |-> "none"]
\* concatenation of a sequence of sequences, in order
RECURSIVE Concat(_)
Concat(ss) == IF ss = <<>> THEN <<>> ELSE Head(ss) \o Concat(Tail(ss))
RECURSIVE SumSeq(_)
SumSeq(ns) == IF ns = <<>> THEN 0 ELSE Head(ns) + SumSeq(Tail(ns))

\* --- rget_read
Sortings == {"UNORDERED", "ASCENDING", "DESCENDING"}
reversed(sorting) == sorting = "DESCENDING"
\* store_key_t values: store_key_t::min() is the empty key, store_key_t::max() the
\* greatest key
StoreKeys == 0..MaxLastKey
store_key_min == 0
store_key_max == MaxLastKey
key_max_always_max(sorting) == store_key_max
\* store_key_t key_max(sorting_t sorting)
key_max(sorting) == IF ~reversed(sorting) THEN store_key_max ELSE store_key_min
\* key_le_t::is_le
is_le(sorting, key1, key2) ==
    \/ ~reversed(sorting) /\ key1 <= key2
    \/ reversed(sorting) /\ key2 <= key1
Streams == {<<>>, <<"row">>}
RgetResults == [exc : Excs] \cup [stream : Streams]
RgetResponses ==
    [truncated : BOOLEAN, last_key : StoreKeys, key_range : {"shard"},
     result : RgetResults]
\* rget_read_response_t(): a default-constructed response; its last_key is a
\* default-constructed store_key_t, the empty key
rget_read_response_t ==
    [truncated |-> FALSE, last_key |-> store_key_min, key_range |-> "unset",
     result |-> [stream |-> <<>>]]
\* ql::make_append(sorting) / ql::make_terminal(terminal), then unshard() and
\* finish(): the shards' streams merged into one, never an error by itself
acc_unshard_finish(rg, last_key, results) ==
    [stream |-> Concat([i \in 1..Len(results) |-> results[i].stream])]
\* the loop of lines 730-744 from shard i on; best is <<>> for NULL, <<k>> for a
\* pointer to key k.  The result is <<returned early, out, best>>.
RECURSIVE rget_fill(_, _, _, _, _)
rget_fill(rg, rs, i, out, best) ==
    IF i > Len(rs) THEN <<FALSE, out, best>>
    ELSE LET resp == rs[i].response
             out1 == IF resp.truncated THEN [out EXCEPT !.truncated = TRUE] ELSE out
             best1 == IF resp.truncated
                         /\ (best = <<>> \/ is_le(rg.sorting, resp.last_key, best[1]))
                      THEN <<resp.last_key>> ELSE best
         IN  IF IsExc(resp.result)
             THEN <<TRUE, [out1 EXCEPT !.result = resp.result], best1>>
             ELSE rget_fill(rg, rs, i + 1, out1, best1)
\* void rdb_r_unshard_visitor_t::operator()(const rget_read_t &rg)
unshard_rget_read(rg, rs, prev) ==
    LET out0 == [rget_read_response_t EXCEPT !.truncated = FALSE,
                                             !.key_range = rg.region_inner]
        filled == rget_fill(rg, rs, 1, out0, <<>>)
        out == filled[2]
        best == filled[3]
        last_key == IF best # <<>> THEN best[1] ELSE key_max(rg.sorting)
        results == [i \in 1..Len(rs) |-> rs[i].response.result]
    IN  IF filled[1] THEN [prev EXCEPT !.response = out]
        ELSE [prev EXCEPT !.response =
                 [out EXCEPT !.last_key = last_key,
                             !.result = acc_unshard_finish(rg, last_key, results)]]
RgetOps == [kind : {"rget_read"}, sorting : Sortings, region_inner : {"whole"},
            profile : {FALSE}]
\* range reads under every sorting, every shard truncated or not, with rows or an error
RgetInputs ==
    \E op \in RgetOps, n \in ShardCounts : \E ps \in [1..n -> RgetResponses] :
        unOp = op /\ responses = [i \in 1..n |-> Wrap(ps[i])]

\* --- intersecting_geo_read
GeoArrays == {<<>>, <<"g1">>, <<"g2", "g1">>}
GeoResponses == [exc : Excs] \cup [results : GeoArrays]
first_error_from_back(rs, i) ==
    LET errs == {j \in i..Len(rs) : IsExc(rs[j].response)}
    IN  IF errs = {} THEN 0 ELSE CHOOSE j \in errs : \A k \in errs : k <= j
\* the index of the first response carrying an error, 0 when there is none
RECURSIVE first_error(_, _)
first_error(rs, i) ==
    IF i > Len(rs) THEN 0
    ELSE IF IsExc(rs[i].response) THEN i ELSE first_error(rs, i + 1)
\* void rdb_r_unshard_visitor_t::operator()(const intersecting_geo_read_t &)
unshard_intersecting_geo_read(gr, rs, prev) ==
    LET e == first_error(rs, 1)
    IN  IF e # 0 THEN [prev EXCEPT !.response = [exc |-> rs[e].response.exc]]
        ELSE [prev EXCEPT !.response =
                 [results |-> Concat([i \in 1..Len(rs) |-> rs[i].response.results])]]
GeoInputs ==
    \E n \in ShardCounts : \E ps \in [1..n -> GeoResponses] :
        /\ unOp = [kind |-> "intersecting_geo_read", profile |-> FALSE]
        /\ responses = [i \in 1..n |-> Wrap(ps[i])]

\* --- nearest_geo_read
MaxList == 2
MaxResults == 3
NearestCounts == 1..(MaxShards + 1)
\* a result_t: <<distance, datum>> pairs; the datum is named after its place
Dists == {1, 2}
SortedDists ==
    {ds \in UNION {[1..n -> Dists] : n \in 0..MaxList} :
        \A j \in 1..(Len(ds) - 1) : ds[j] <= ds[j + 1]}
NearestChoices == [exc : Excs] \cup [dists : SortedDists]
\* the response of shard i for a choice
nearest_response(i, c) ==
    IF IsExc(c) THEN c
    ELSE [results |-> [j \in 1..Len(c.dists) |-> <<c.dists[j], <<i, j>> >>]]
erase_swap_last(iters, idx) ==
    [j \in 1..(Len(iters) - 1) |-> IF j = idx THEN iters[Len(iters)] ELSE iters[j]]
\* std::vector<iter_range_t>::erase(begin() + idx)
erase(iters, idx) == [j \in 1..(Len(iters) - 1) |-> IF j < idx THEN iters[j] ELSE iters[j + 1]]
nearest_it_first(rs, iters, i, idx) == 1
nearest_it_or_equal(rs, iters, i, idx) ==
    LET d(k) == rs[iters[k][1]].response.results[iters[k][2]][1]
    IN  CHOOSE k \in 1..Len(iters) :
            /\ \A m \in 1..Len(iters) : d(k) <= d(m)
            /\ \A m \in (k + 1)..Len(iters) : d(k) < d(m)
\* lines 689-697: the index of the iter with the nearest result; a later iter
\* replaces the choice only when strictly nearer
RECURSIVE nearest_it(_, _, _, _)
nearest_it(rs, iters, i, idx) ==
    IF i > Len(iters) THEN idx
    ELSE LET d == rs[iters[i][1]].response.results[iters[i][2]][1]
             best == rs[iters[idx][1]].response.results[iters[idx][2]][1]
         IN  IF idx = Len(iters) + 1 \/ d < best
             THEN nearest_it(rs, iters, i + 1, i)
             ELSE nearest_it(rs, iters, i + 1, idx)
\* lines 686-704: the merge loop; an iter is <<shard, position>>
RECURSIVE nearest_merge(_, _, _, _)
nearest_merge(rs, iters, total_size, combined) ==
    IF Len(combined) >= total_size THEN combined
    ELSE LET idx == nearest_it(rs, iters, 1, Len(iters) + 1)
             sh == iters[idx][1]
             pos == iters[idx][2]
             results == rs[sh].response.results
             advanced == [iters EXCEPT ![idx] = <<sh, pos + 1>>]
         IN  nearest_merge(rs,
                           IF pos + 1 > Len(results) THEN erase(advanced, idx) ELSE advanced,
                           total_size, Append(combined, results[pos]))
Min(a, b) == IF a <= b THEN a ELSE b
\* void rdb_r_unshard_visitor_t::operator()(const nearest_geo_read_t &query)
unshard_nearest_geo_read(query, rs, prev) ==
    LET e == first_error(rs, 1)
        nonempty == SelectSeq([i \in 1..Len(rs) |-> i],
                              LAMBDA i : rs[i].response.results # <<>>)
        iters == [k \in 1..Len(nonempty) |-> <<nonempty[k], 1>>]
        total_size == Min(SumSeq([i \in 1..Len(rs) |-> Len(rs[i].response.results)]),
                          query.max_results)
    IN  IF e # 0 THEN [prev EXCEPT !.response = [exc |-> rs[e].response.exc]]
        ELSE [prev EXCEPT !.response =
                 [results |-> nearest_merge(rs, iters, total_size, <<>>)]]
NearestInputs ==
    \E m \in 0..MaxResults, n \in NearestCounts : \E cs \in [1..n -> NearestChoices] :
        /\ unOp = [kind |-> "nearest_geo_read", max_results |-> m, profile |-> FALSE]
        /\ responses = [i \in 1..n |-> Wrap(nearest_response(i, cs[i]))]

\* --- distribution_read
MaxCount == 2
MaxLimit == 3
\* the key ranges of two table shards and the bucket keys the storage engine
\* reports inside each; every key range is split into two hash shards
DistRanges == {[left |-> 1, right |-> 3], [left |-> 3, right |-> 4]}
DistHashes == {[beg |-> 0, end |-> 1], [beg |-> 1, end |-> 2]}
DistRegions == {[beg |-> h.beg, end |-> h.end, inner |-> r] : h \in DistHashes, r \in DistRanges}
BucketKeys(range) == range.left..(range.right - 1)
DistResponses ==
    UNION {[region : {rg}, key_counts : [BucketKeys(rg.inner) -> 0..MaxCount]] : rg \in DistRegions}
\* bool operator<(key_range_t, key_range_t), bool operator<(hash_region_t, hash_region_t)
key_range_less(x, y) == x.left < y.left \/ (x.left = y.left /\ x.right < y.right)
region_less(x, y) ==
    \/ key_range_less(x.inner, y.inner)
    \/ x.inner = y.inner /\ (x.beg < y.beg \/ (x.beg = y.beg /\ x.end < y.end))
\* distribution_read_response_less_t::operator()
distribution_read_response_less(x, y) ==
    IF x.region.inner = y.region.inner
    THEN region_less(x.region, y.region)
    ELSE key_range_less(x.region.inner, y.region.inner)
\* the sum of the counts of the keys in S
RECURSIVE SumCounts(_, _)
SumCounts(key_counts, S) ==
    IF S = {} THEN 0
    ELSE LET k == CHOOSE k \in S : TRUE
         IN  key_counts[k] + SumCounts(key_counts, S \ {k})
\* tmp_total_keys of lines 779-784
total_keys(result) == SumCounts(result.key_counts, DOMAIN result.key_counts)
\* the keys of a std::map in iteration order
RECURSIVE KeysInOrder(_)
KeysInOrder(S) ==
    IF S = {} THEN <<>>
    ELSE LET k == CHOOSE k \in S : \A m \in S : k <= m
         IN  <<k>> \o KeysInOrder(S \ {k})
\* the loop of lines 540-550 with `it` at the i-th key of the original map
RECURSIVE scale_down_from(_, _, _, _)
scale_down_from(key_counts, ks, i, combine) ==
    IF i > Len(ks) THEN key_counts
    ELSE LET absorbed == {ks[j] : j \in (i + 1)..Min(i + combine, Len(ks))}
             merged == [k \in DOMAIN key_counts \ absorbed |->
                           IF k = ks[i] THEN key_counts[k] + SumCounts(key_counts, absorbed)
                           ELSE key_counts[k]]
         IN  scale_down_from(merged, ks, i + combine + 1, combine)
scale_down_none(result_limit, key_counts) == key_counts
scale_down_pairs(result_limit, key_counts) ==
    scale_down_from(key_counts, KeysInOrder(DOMAIN key_counts), 1,
                    (Cardinality(DOMAIN key_counts) \div result_limit) - 1)
\* void scale_down_distribution(size_t result_limit, std::map<store_key_t, int64_t> *key_counts)
scale_down_distribution(result_limit, key_counts) ==
    scale_down_from(key_counts, KeysInOrder(DOMAIN key_counts), 1,
                    Cardinality(DOMAIN key_counts) \div result_limit)
\* lines 797-807: static_cast<int64_t>(count * (double(total) / double(largest)))
scale_up(key_counts, total_range_keys, largest_size) ==
    [k \in DOMAIN key_counts |-> (key_counts[k] * total_range_keys) \div largest_size]
\* std::map::insert(first, last): keys already present keep their value
map_insert(res, key_counts) ==
    [k \in DOMAIN res \cup DOMAIN key_counts |-> IF k \in DOMAIN res THEN res[k] ELSE key_counts[k]]
\* the end of the run of results with the key range of results[i] (lines 778, 792)
RECURSIVE group_end(_, _, _)
group_end(results, i, range) ==
    IF i <= Len(results) /\ results[i].region.inner = range
    THEN group_end(results, i + 1, range) ELSE i
largest_index_last(results, i, e) == e - 1
\* lines 774-789: the first result of results[i..e-1] with the most keys
largest_index(results, i, e) ==
    CHOOSE l \in i..(e - 1) :
        /\ \A k \in i..(e - 1) : total_keys(results[k]) <= total_keys(results[l])
        /\ \/ total_keys(results[l]) = 0 /\ l = i
           \/ total_keys(results[l]) > 0
              /\ \A k \in i..(l - 1) : total_keys(results[k]) < total_keys(results[l])
\* the loop of lines 771-814 from results[i] on
RECURSIVE dist_groups(_, _, _)
dist_groups(results, i, res) ==
    IF i > Len(results) THEN res
    ELSE LET e == group_end(results, i, results[i].region.inner)
             l == largest_index(results, i, e)
             largest_size == total_keys(results[l])
             total_range_keys == SumSeq([k \in 1..(e - i) |-> total_keys(results[i + k - 1])])
         IN  dist_groups(results, e,
                         IF largest_size > 0
                         THEN map_insert(res, scale_up(results[l].key_counts,
                                                       total_range_keys, largest_size))
                         ELSE res)
\* void rdb_r_unshard_visitor_t::operator()(const distribution_read_t &dg)
unshard_distribution_read(dg, rs, prev) ==
    LET results == SortSeq([i \in 1..Len(rs) |-> rs[i].response],
                           distribution_read_response_less)
        res == dist_groups(results, 1, <<>>)
    IN  [prev EXCEPT !.response =
            [region |-> "unset",
             key_counts |-> IF dg.result_limit > 0 /\ Cardinality(DOMAIN res) > dg.result_limit
                            THEN scale_down_distribution(dg.result_limit, res)
                            ELSE res]]
\* one shard answering with ten buckets holding 1..10 keys
TenBuckets ==
    [region |-> [beg |-> 0, end |-> 2, inner |-> [left |-> 1, right |-> 11]],
     key_counts |-> [k \in 1..10 |-> k]]
DistInputs ==
    \/ \E l \in 0..MaxLimit, n \in ShardCounts : \E ps \in [1..n -> DistResponses] :
           /\ \A i, j \in 1..n : i # j => ps[i].region # ps[j].region
           /\ unOp = [kind |-> "distribution_read", result_limit |-> l, profile |-> FALSE]
           /\ responses = [i \in 1..n |-> Wrap(ps[i])]
    \/ \E l \in 0..10 :
           /\ unOp = [kind |-> "distribution_read", result_limit |-> l, profile |-> FALSE]
           /\ responses = <<Wrap(TenBuckets)>>

\* --- sindex_status
MaxBlocks == 1
SindexNames == {"i1", "i2"}
\* what a shard reports for an index; the definition, geoness, multiness and
\* datedness of an index are the same on every shard
single_sindex_status(name, processed, total, ready_) ==
    [blocks_processed |-> processed, blocks_total |-> total, ready |-> ready_,
     func |-> name, geo |-> "REGULAR", multi |-> "SINGLE", outdated |-> FALSE]
\* single_sindex_status_t(): a default-constructed status
single_sindex_status_t ==
    [blocks_processed |-> 0, blocks_total |-> 0, ready |-> TRUE,
     func |-> "", geo |-> "REGULAR", multi |-> "SINGLE", outdated |-> FALSE]
add_status_last(new_status, status_out) == new_status
\* void add_status(const single_sindex_status_t &new_status, single_sindex_status_t *status_out)
add_status(new_status, status_out) ==
    [blocks_processed |-> status_out.blocks_processed + new_status.blocks_processed,
     blocks_total |-> status_out.blocks_total + new_status.blocks_total,
     ready |-> status_out.ready /\ new_status.ready,
     func |-> new_status.func,
     geo |-> new_status.geo,
     multi |-> new_status.multi,
     outdated |-> new_status.outdated]
\* the loop of lines 833-839 from shard i on; statuses[name] of a name not yet in
\* the map is a default-constructed status
RECURSIVE add_statuses(_, _, _)
add_statuses(rs, i, statuses) ==
    IF i > Len(rs) THEN statuses
    ELSE LET resp == rs[i].response.statuses
         IN  add_statuses(rs, i + 1,
                 [n \in DOMAIN statuses \cup DOMAIN resp |->
                     IF n \in DOMAIN resp
                     THEN add_status(resp[n], IF n \in DOMAIN statuses THEN statuses[n]
                                              ELSE single_sindex_status_t)
                     ELSE statuses[n]])
\* void rdb_r_unshard_visitor_t::operator()(const sindex_status_t &ss)
unshard_sindex_status(ss, rs, prev) ==
    [response |-> [statuses |-> add_statuses(rs, 1, <<>>)], event_log |-> <<>>, n_shards |-> 0]
\* shard reports: "i1" in any state of its build, "i2" absent or half built
StatusesOfI1 ==
    {single_sindex_status("i1", p, t, r) : p \in 0..MaxBlocks, t \in 0..MaxBlocks, r \in BOOLEAN}
StatusMaps ==
    {<<>>} \cup {[n \in {"i1"} |-> s] : s \in StatusesOfI1}
        \cup {[n \in {"i2"} |-> single_sindex_status("i2", 0, MaxBlocks, FALSE)]}
        \cup {[n \in SindexNames |-> IF n = "i1" THEN s
                                     ELSE single_sindex_status("i2", 0, MaxBlocks, FALSE)]
              : s \in StatusesOfI1}
StatusInputs ==
    \E n \in ShardCounts : \E ms \in [1..n -> StatusMaps] :
        /\ unOp = [kind |-> "sindex_status", profile |-> FALSE]
        /\ responses = [i \in 1..n |-> Wrap([statuses |-> ms[i]])]

\* --- changefeed_stamp
MaxStamp == 2
Peers == {"p1", "p2"}
MaxIsFirst(a, b) == a
\* std::max
Max(a, b) == IF a < b THEN b ELSE a
\* the loop of lines 605-615 from shard i on
RECURSIVE max_stamps(_, _, _)
max_stamps(rs, i, stamps) ==
    IF i > Len(rs) THEN stamps
    ELSE LET res == rs[i].response.stamps
         IN  max_stamps(rs, i + 1,
                 [p \in DOMAIN stamps \cup DOMAIN res |->
                     IF p \notin DOMAIN res THEN stamps[p]
                     ELSE IF p \notin DOMAIN stamps THEN res[p]
                     ELSE Max(res[p], stamps[p])])
\* void rdb_r_unshard_visitor_t::operator()(const changefeed_stamp_t &)
unshard_changefeed_stamp(op, rs, prev) ==
    [prev EXCEPT !.response = [stamps |-> max_stamps(rs, 1, <<>>)]]
StampMaps == UNION {[ps -> 0..MaxStamp] : ps \in SUBSET Peers}
StampInputs ==
    \E n \in ShardCounts : \E ms \in [1..n -> StampMaps] :
        /\ unOp = [kind |-> "changefeed_stamp", profile |-> FALSE]
        /\ responses = [i \in 1..n |-> Wrap([stamps |-> ms[i]])]

\* --- changefeed_subscribe
\* void rdb_r_unshard_visitor_t::operator()(const changefeed_subscribe_t &)
unshard_changefeed_subscribe(op, rs, prev) ==
    [prev EXCEPT !.response =
        [addrs |-> UNION {rs[i].response.addrs : i \in 1..Len(rs)},
         server_uuids |-> UNION {rs[i].response.server_uuids : i \in 1..Len(rs)}]]

\* --- point_read, sindex_list, changefeed_point_stamp
\* the process after a failed guarantee(): it has aborted, unshard() never returns
Crashed == [kind |-> "crashed"]
pass_through_unchecked(op, rs, prev) == rs[1]
\* guarantee(count == 1); *response_out = responses[0];
pass_through(op, rs, prev) == IF Len(rs) # 1 THEN Crashed ELSE rs[1]

\* --- writes
\* ql::stats_merge over two statistics objects: the counters are summed
stats_merge(a, b) == [inserted |-> a.inserted + b.inserted, errors |-> a.errors + b.errors]
\* rdb_w_unshard_visitor_t::merge_stats; write_response_t(stats) is a fresh response
RECURSIVE merge_stats_from(_, _, _)
merge_stats_from(rs, i, stats) ==
    IF i > Len(rs) THEN stats
    ELSE merge_stats_from(rs, i + 1, stats_merge(stats, rs[i].response))
merge_stats(rs) ==
    [response |-> merge_stats_from(rs, 1, [inserted |-> 0, errors |-> 0]),
     event_log |-> <<>>, n_shards |-> 0]
\* rdb_w_unshard_visitor_t::monokey_response
monokey_response(rs) == IF Len(rs) # 1 THEN Crashed ELSE rs[1]
\* boost::apply_visitor(rdb_w_unshard_visitor_t(...), write); sindex_create,
\* sindex_drop, sindex_rename and sync copy responses[0] whatever the count
rdb_w_unshard_visitor_t(op, rs, prev) ==
    IF op.kind \in {"batched_replace", "batched_insert"} THEN merge_stats(rs)
    ELSE IF op.kind \in {"point_write", "point_delete"} THEN monokey_response(rs)
    ELSE rs[1]

\* --- responses of profiled shards
\* a payload shard i can answer an operation of the kind with
PlainPayload(kind, i) ==
    CASE kind = "rget_read" ->
             [truncated |-> FALSE, last_key |-> store_key_min, key_range |-> "shard",
              result |-> [stream |-> <<"row">>]]
      [] kind = "intersecting_geo_read" -> [results |-> <<"g1">>]
      [] kind = "nearest_geo_read" -> nearest_response(i, [dists |-> <<1>>])
      [] kind = "distribution_read" ->
             [region |-> [beg |-> i - 1, end |-> i, inner |-> [left |-> 1, right |-> 3]],
              key_counts |-> [k \in 1..2 |-> 1]]
      [] kind = "sindex_status" ->
             [statuses |-> [n \in {"i1"} |-> single_sindex_status("i1", 0, MaxBlocks, FALSE)]]
      [] kind = "changefeed_stamp" -> [stamps |-> [p \in {"p1"} |-> 0]]
      [] kind = "changefeed_subscribe" -> [addrs |-> {"addr"}, server_uuids |-> {i}]
      [] kind \in {"batched_replace", "batched_insert"} -> [inserted |-> 1, errors |-> 0]
      [] OTHER -> [data |-> i]
ProfiledInputs ==
    \E k \in ReadKinds \cup WriteKinds, p \in BOOLEAN :
        \E n \in ShardCounts :
            \E ls \in [1..n -> EventLogs \X {1, 2}] :
                /\ unOp = [kind |-> k, profile |-> p, sorting |-> "ASCENDING",
                           region_inner |-> "whole", max_results |-> MaxResults,
                           result_limit |-> 0]
                /\ responses = [i \in 1..n |-> [response |-> PlainPayload(k, i),
                                                 event_log |-> ls[i][1],
                                                 n_shards |-> ls[i][2]]]

\* --- the entry points
\* boost::apply_visitor(rdb_r_unshard_visitor_t(...), read)
rdb_r_unshard_visitor_t(op, rs, prev) ==
    CASE op.kind = "rget_read" -> unshard_rget_read(op, rs, prev)
      [] op.kind = "intersecting_geo_read" -> unshard_intersecting_geo_read(op, rs, prev)
      [] op.kind = "nearest_geo_read" -> unshard_nearest_geo_read(op, rs, prev)
      [] op.kind = "distribution_read" -> unshard_distribution_read(op, rs, prev)
      [] op.kind = "sindex_status" -> unshard_sindex_status(op, rs, prev)
      [] op.kind = "changefeed_stamp" -> unshard_changefeed_stamp(op, rs, prev)
      [] op.kind = "changefeed_subscribe" -> unshard_changefeed_subscribe(op, rs, prev)
      [] op.kind \in {"point_read", "sindex_list", "changefeed_point_stamp"} ->
             pass_through(op, rs, prev)
profile_fields_kept(op, rs, out) == out
\* the profiling tail of read_t::unshard and write_t::unshard
profile_fields(op, rs, out) ==
    LET cleared == [out EXCEPT !.n_shards = 0, !.event_log = <<>>]
    IN  IF out = Crashed THEN Crashed
        ELSE IF op.profile
        THEN [cleared EXCEPT
                 !.event_log = Concat([i \in 1..Len(rs) |-> rs[i].event_log]),
                 !.n_shards = SumSeq([i \in 1..Len(rs) |-> rs[i].n_shards])]
        ELSE cleared
UnshardInputs ==
    \/ RgetInputs
    \/ GeoInputs
    \/ NearestInputs
    \/ DistInputs
    \/ StatusInputs
    \/ StampInputs
    \/ ProfiledInputs
InitUnshard ==
    /\ InitPostCon(NoBuild)
    /\ shardOp = [kind |-> "none"]
    /\ shardRegions = <<>>
    /\ shardOuts = <<>>
    /\ UnshardInputs
    /\ response_out = NotCalled
    /\ LibIdle
\* void read_t::unshard(responses, count, response_out, ctx, interruptor)
read_unshard ==
    /\ response_out = NotCalled
    /\ unOp.kind \in ReadKinds
    /\ \E prev \in PriorResponses :
           response_out' =
               profile_fields(unOp, responses,
                              rdb_r_unshard_visitor_t(unOp, responses, prev))
    /\ UNCHANGED <<unOp, responses, postconVars, shardVars, libVars>>
\* void write_t::unshard(responses, count, response_out, ctx, interruptor)
write_unshard ==
    /\ response_out = NotCalled
    /\ unOp.kind \in WriteKinds
    /\ \E prev \in PriorResponses :
           response_out' =
               profile_fields(unOp, responses,
                              rdb_w_unshard_visitor_t(unOp, responses, prev))
    /\ UNCHANGED <<unOp, responses, postconVars, shardVars, libVars>>
NextUnshard ==
    \/ read_unshard
    \/ write_unshard
SpecUnshard == InitUnshard /\ [][NextUnshard]_vars

\* ------------------------------------------------------- claims on unsharding
\* unshard() has returned
Unsharded == response_out # NotCalled /\ response_out # Crashed
UnshardedKind(k) == Unsharded /\ unOp.kind = k
ShardIdx == 1..Len(responses)
\* the payload of shard i and of the composed response
Resp(i) == responses[i].response
Out == response_out.response

\* the key order of a sort and its greatest key
SortLe(sorting, a, b) == IF sorting = "DESCENDING" THEN a >= b ELSE a <= b
SortMax(sorting) == IF sorting = "DESCENDING" THEN store_key_min ELSE store_key_max
TruncatedShards == {i \in ShardIdx : Resp(i).truncated}
ErrorShards == {i \in ShardIdx : IsExc(Resp(i).result)}
Cursor ==
    /\ TruncatedShards = {} =>
           /\ Out.truncated = FALSE
           /\ Out.last_key = SortMax(unOp.sorting)
    /\ TruncatedShards # {} =>
           /\ Out.truncated = TRUE
           /\ \E i \in TruncatedShards : Out.last_key = Resp(i).last_key
           /\ \A i \in TruncatedShards : SortLe(unOp.sorting, Out.last_key, Resp(i).last_key)

\* C11 as stated: after a range-read unshard, if no shard response is truncated
\* the result has truncated = false and last_key the sort-max sentinel; if some
\* shard is truncated the result has truncated = true and last_key the least,
\* under the sort's key order, of the truncated shards' last keys.
C11_Original == UnshardedKind("rget_read") => Cursor

\* C11 as the code has it: the continuation cursor of a range-read unshard is
\* as stated whenever no shard response carries an error; an error response
\* ends the unshard before last_key is filled in.
C11_CursorWithoutError ==
    (UnshardedKind("rget_read") /\ ErrorShards = {}) => Cursor

\* a descending read whose two truncated shards stopped at different keys: the
\* greater key, least in descending order, is the cursor
C11_Witness ==
    /\ UnshardedKind("rget_read")
    /\ unOp.sorting = "DESCENDING"
    /\ ErrorShards = {}
    /\ Len(responses) = 2
    /\ TruncatedShards = {1, 2}
    /\ Resp(1).last_key = 1
    /\ Resp(2).last_key = 2
    /\ Out.truncated
    /\ Out.last_key = 2

\* the merge paths with an error payload, and the error of a payload
MergeKinds == {"rget_read", "intersecting_geo_read", "nearest_geo_read"}
ErrOf(kind, payload) == IF kind = "rget_read" THEN payload.result ELSE payload
ShardsWithError == {i \in ShardIdx : IsExc(ErrOf(unOp.kind, Resp(i)))}
LowestError == CHOOSE i \in ShardsWithError : \A j \in ShardsWithError : i <= j

ResultEntries(rs) == UNION {{rs[i].response.results[j] : j \in 1..Len(rs[i].response.results)}
                            : i \in 1..Len(rs)}
OutEntries == {Out.results[k] : k \in 1..Len(Out.results)}
NearestNoError ==
    /\ UnshardedKind("nearest_geo_read")
    /\ \A i \in ShardIdx : ~IsExc(Resp(i))
SizeSum == SumSeq([i \in ShardIdx |-> Len(Resp(i).results)])

\* C13: a geo-nearest unshard of error-free responses, each sorted by ascending
\* distance, returns exactly min(sum of the shard sizes, max_results) entries
\* of the shards, sorted by ascending distance, and no entry left out is
\* strictly nearer than an entry returned.
C13_NearestMerge ==
    NearestNoError =>
        /\ Len(Out.results) = Min(SizeSum, unOp.max_results)
        /\ \A k \in 1..(Len(Out.results) - 1) : Out.results[k][1] <= Out.results[k + 1][1]
        /\ OutEntries \subseteq ResultEntries(responses)
        /\ Cardinality(OutEntries) = Len(Out.results)
        /\ \A o \in ResultEntries(responses) \ OutEntries :
               \A e \in OutEntries : ~(o[1] < e[1])

\* three shards hold more entries than max_results; the result takes entries of
\* two shards and leaves a farther one out
C13_Witness ==
    /\ NearestNoError
    /\ Len(responses) = 3
    /\ SizeSum > unOp.max_results
    /\ Len(Out.results) = unOp.max_results
    /\ \E a, b \in OutEntries : a[2][1] # b[2][1]
    /\ \E o \in ResultEntries(responses) \ OutEntries : \E e \in OutEntries : e[1] < o[1]

\* the shard and the position in its list of the k-th entry of the result
OutShard(k) == Out.results[k][2][1]
OutPos(k) == Out.results[k][2][2]

\* C14: the geo-nearest merge is stable: entries of one shard keep their order,
\* and of two entries of different shards at the same distance the one of the
\* lower shard index comes first.
C14_StableMerge ==
    NearestNoError =>
        \A a, b \in 1..Len(Out.results) :
            a < b =>
                /\ OutShard(a) = OutShard(b) => OutPos(a) < OutPos(b)
                /\ (OutShard(a) # OutShard(b) /\ Out.results[a][1] = Out.results[b][1])
                       => OutShard(a) < OutShard(b)

\* shard 1's single entry is merged first and its list leaves the frontier;
\* shards 2 and 3 then tie, and shard 2's entry comes first
C14_Witness ==
    /\ NearestNoError
    /\ Len(responses) = 3
    /\ Len(Resp(1).results) = 1
    /\ Len(Out.results) = 3
    /\ OutShard(1) = 1
    /\ OutShard(2) = 2
    /\ OutShard(3) = 3
    /\ Out.results[1][1] < Out.results[2][1]
    /\ Out.results[2][1] = Out.results[3][1]

\* the composed histogram and its number of buckets
Histogram == Out.key_counts
Buckets == Cardinality(DOMAIN Histogram)

\* C15 as stated: whatever the shard histograms and the result_limit, the
\* histogram a distribution-read unshard returns has at most result_limit buckets.
C15_Original == UnshardedKind("distribution_read") => Buckets <= unOp.result_limit

\* C15 as the code has it: the histogram has at most result_limit buckets when
\* result_limit is positive; a result_limit of 0 asks for no scale-down.
C15_WithinPositiveLimit ==
    (UnshardedKind("distribution_read") /\ unOp.result_limit > 0)
        => Buckets <= unOp.result_limit

\* two key ranges bring three buckets, the limit is 2: the result has 2 buckets
C15_Witness ==
    /\ UnshardedKind("distribution_read")
    /\ Len(responses) = 2
    /\ Resp(1).region.inner # Resp(2).region.inner
    /\ \A i \in ShardIdx : \A k \in DOMAIN Resp(i).key_counts : Resp(i).key_counts[k] > 0
    /\ unOp.result_limit = 2
    /\ Buckets = 2

\* the spec's example: one shard with ten buckets of 1..10 keys, result_limit 5
TenBucketExample ==
    /\ UnshardedKind("distribution_read")
    /\ Len(responses) = 1
    /\ Resp(1) = TenBuckets
    /\ unOp.result_limit = 5

\* C16 as stated: the ten buckets with counts 1..10 are scaled down under
\* result_limit 5 to the five buckets [3,7,11,15,19] keyed by the first key of
\* each pair.
C16_Original ==
    TenBucketExample =>
        /\ DOMAIN Histogram = {1, 3, 5, 7, 9}
        /\ \A k \in DOMAIN Histogram : Histogram[k] = 2 * k + 1

\* C16 as the code has it: with combine = 10 div 5 = 2 every bucket takes in the
\* two buckets that follow it, so the ten buckets become the four buckets
\* [1+2+3, 4+5+6, 7+8+9, 10] = [6,15,24,10] keyed by the first key of each group.
C16_GroupsOfThree ==
    TenBucketExample =>
        /\ DOMAIN Histogram = {1, 4, 7, 10}
        /\ Histogram[1] = 6
        /\ Histogram[4] = 15
        /\ Histogram[7] = 24
        /\ Histogram[10] = 10

\* the example has been unsharded and four buckets came out
C16_Witness == TenBucketExample /\ Buckets = 4

\* the key ranges of the responses, the hash shards of one, and the shards of a
\* key range that hold the most keys
RangeGroups == {Resp(i).region.inner : i \in ShardIdx}
GroupOf(range) == {i \in ShardIdx : Resp(i).region.inner = range}
KeysOf(i) == SumCounts(Resp(i).key_counts, DOMAIN Resp(i).key_counts)
LargestOf(range) == {i \in GroupOf(range) : \A j \in GroupOf(range) : KeysOf(j) <= KeysOf(i)}
RECURSIVE SumOver(_, _)
SumOver(f, S) ==
    IF S = {} THEN 0
    ELSE LET x == CHOOSE x \in S : TRUE IN f[x] + SumOver(f, S \ {x})
\* the counts of shard i scaled by (keys of its range) / (keys of shard i)
Rescaled(i) ==
    LET all == SumOver([j \in ShardIdx |-> KeysOf(j)], GroupOf(Resp(i).region.inner))
    IN  IF KeysOf(i) = 0 THEN 0
        ELSE SumOver([k \in DOMAIN Resp(i).key_counts |-> (Resp(i).key_counts[k] * all) \div KeysOf(i)],
                     DOMAIN Resp(i).key_counts)

\* C17: the counts of the composed histogram add up to the sum, over the key
\* ranges, of the rescaled counts of a largest hash shard of the range; every
\* bucket key of the result is a bucket key of some shard.
C17_CountsConserved ==
    UnshardedKind("distribution_read") =>
        /\ \E pick \in [RangeGroups -> ShardIdx] :
               /\ \A r \in RangeGroups : pick[r] \in LargestOf(r)
               /\ SumCounts(Histogram, DOMAIN Histogram)
                      = SumOver([r \in RangeGroups |-> Rescaled(pick[r])], RangeGroups)
        /\ \A k \in DOMAIN Histogram : \E i \in ShardIdx : k \in DOMAIN Resp(i).key_counts

\* two key ranges, the first rescaled; the three buckets are scaled down to two
\* and hold all the counts
C17_Witness ==
    /\ UnshardedKind("distribution_read")
    /\ Len(responses) = 2
    /\ Resp(1).region.inner # Resp(2).region.inner
    /\ KeysOf(1) = 3
    /\ KeysOf(2) = 2
    /\ unOp.result_limit = 2
    /\ Buckets = 2
    /\ SumCounts(Histogram, DOMAIN Histogram) = 5

\* the shards reporting index name n, and every way to reorder the responses
Reporting(n) == {i \in ShardIdx : n \in DOMAIN Resp(i).statuses}
Reordered == {[i \in ShardIdx |-> responses[p[i]]] : p \in Permutations(ShardIdx)}

\* C18: after a sindex_status unshard the composed map holds exactly the index
\* names some shard reported; for each, blocks_processed and blocks_total are the
\* sums over the shards reporting it and ready is the conjunction of their
\* ready flags; reordering the shard responses gives the same map.
C18_StatusFold ==
    UnshardedKind("sindex_status") =>
        /\ DOMAIN Out.statuses = {n \in SindexNames : Reporting(n) # {}}
        /\ \A n \in DOMAIN Out.statuses :
               /\ Out.statuses[n].blocks_processed
                      = SumOver([i \in ShardIdx |-> Resp(i).statuses[n].blocks_processed],
                                Reporting(n))
               /\ Out.statuses[n].blocks_total
                      = SumOver([i \in ShardIdx |-> Resp(i).statuses[n].blocks_total],
                                Reporting(n))
               /\ Out.statuses[n].ready = (\A i \in Reporting(n) : Resp(i).statuses[n].ready)
        /\ \A rs \in Reordered : add_statuses(rs, 1, <<>>) = Out.statuses

\* two shards report "i1", one ready after 1 block, the other not ready; only
\* the second reports "i2"
C18_Witness ==
    /\ UnshardedKind("sindex_status")
    /\ Reporting("i1") = {1, 2}
    /\ Reporting("i2") = {2}
    /\ Resp(1).statuses["i1"].ready
    /\ ~Resp(2).statuses["i1"].ready
    /\ Resp(1).statuses["i1"].blocks_processed = 1
    /\ Resp(2).statuses["i1"].blocks_total = 1
    /\ ~Out.statuses["i1"].ready
    /\ Out.statuses["i1"].blocks_total = 2

\* the shards with a stamp of peer p
Stamping(p) == {i \in ShardIdx : p \in DOMAIN Resp(i).stamps}

\* C19: after a changefeed_stamp unshard the composed map holds exactly the peers
\* some shard has a stamp of, each with the greatest of its stamps over the
\* shards; reordering the shard responses gives the same map.
C19_MaxStamp ==
    UnshardedKind("changefeed_stamp") =>
        /\ DOMAIN Out.stamps = {p \in Peers : Stamping(p) # {}}
        /\ \A p \in DOMAIN Out.stamps :
               /\ \E i \in Stamping(p) : Out.stamps[p] = Resp(i).stamps[p]
               /\ \A i \in Stamping(p) : Resp(i).stamps[p] <= Out.stamps[p]
        /\ \A rs \in Reordered : max_stamps(rs, 1, <<>>) = Out.stamps

\* peer "p1" has the greater stamp on shard 1, peer "p2" is known to shard 2 only
C19_Witness ==
    /\ UnshardedKind("changefeed_stamp")
    /\ Stamping("p1") = {1, 2}
    /\ Stamping("p2") = {2}
    /\ Resp(1).stamps["p1"] > Resp(2).stamps["p1"]
    /\ Out.stamps["p1"] = Resp(1).stamps["p1"]
    /\ Out.stamps["p2"] = Resp(2).stamps["p2"]

\* C20: a composed read or write response of a profiled operation carries the
\* shards' event logs concatenated in shard order and the sum of their n_shards;
\* that of an operation without profiling carries an empty event log and
\* n_shards = 0, whatever the visitor copied from responses[0].
C20_ProfilingFields ==
    Unsharded =>
        IF unOp.profile
        THEN /\ response_out.event_log = Concat([i \in ShardIdx |-> responses[i].event_log])
             /\ response_out.n_shards = SumSeq([i \in ShardIdx |-> responses[i].n_shards])
        ELSE /\ response_out.event_log = <<>>
             /\ response_out.n_shards = 0

\* a profiled sindex_create answered by two shards with different logs: the
\* result copies responses[0] and carries both logs in order
C20_Witness ==
    /\ UnshardedKind("sindex_create")
    /\ unOp.profile
    /\ Len(responses) = 2
    /\ responses[1].event_log = <<"evB">>
    /\ responses[2].event_log = <<"evA">>
    /\ responses[1].n_shards = 1
    /\ responses[2].n_shards = 2
    /\ response_out.response = responses[1].response
    /\ response_out.event_log = <<"evB", "evA">>
    /\ response_out.n_shards = 3

\* the variants whose unshard takes the response of one shard
SingleResponseKinds == {"point_read", "sindex_list", "changefeed_point_stamp",
                        "point_write", "point_delete", "sindex_create", "sindex_drop",
                        "sindex_rename", "sync"}
\* the variants whose unshard asserts count = 1
GuaranteedKinds == {"point_read", "sindex_list", "changefeed_point_stamp",
                    "point_write", "point_delete"}
UnshardCalled == response_out # NotCalled
ReturnsFirstPayload == Unsharded /\ Out = Resp(1)

\* C21 as stated: for the nine single-response variants, unshard returns the
\* payload of the one response when count = 1 and aborts on any other count.
C21_Original ==
    (UnshardCalled /\ unOp.kind \in SingleResponseKinds) =>
        IF Len(responses) = 1 THEN ReturnsFirstPayload ELSE response_out = Crashed

\* C21 as the code has it: point_read, sindex_list, changefeed_point_stamp,
\* point_write and point_delete return the payload of the one response when
\* count = 1 and abort on any other count; sindex_create, sindex_drop,
\* sindex_rename and sync assert nothing and return the payload of the first
\* response whatever the count.
C21_GuaranteedOrFirst ==
    (UnshardCalled /\ unOp.kind \in SingleResponseKinds) =>
        IF unOp.kind \in GuaranteedKinds /\ Len(responses) # 1
        THEN response_out = Crashed
        ELSE ReturnsFirstPayload

\* a point_write answered by two shards: the guarantee fails
C21_Witness ==
    /\ unOp.kind = "point_write"
    /\ Len(responses) = 2
    /\ response_out = Crashed

\* ------------------------------------------------------------- free functions
\* the outcome of a failed guarantee()
Rejected == Crashed
NoCall == [kind |-> "none"]
ShardsIdle ==
    /\ shardOp = [kind |-> "none"] /\ shardRegions = <<>> /\ shardOuts = <<>>
    /\ unOp = [kind |-> "none"] /\ responses = <<>> /\ response_out = [kind |-> "none"]

\* --- cpu_sharding_subspace
\* HASH_REGION_HASH_SIZE is drawn from 1..MaxHashSpace, num_cpu_shards from
\* 0..MaxCpuShards and subregion_number from -1..num_cpu_shards
MaxHashSpace == 9
MaxCpuShards == 4
key_range_universe == [lb |-> "none", l |-> 0, rb |-> "none", r |-> 0]
cpu_sharding_subspace_equal_width(subregion_number, num_cpu_shards, HASH_REGION_HASH_SIZE) ==
    IF subregion_number < 0 \/ ~(subregion_number < num_cpu_shards) THEN Rejected
    ELSE LET width == HASH_REGION_HASH_SIZE \div num_cpu_shards
             beg == width * subregion_number
         IN  [beg |-> beg, end |-> beg + width, inner |-> key_range_universe]
\* region_t cpu_sharding_subspace(int subregion_number, int num_cpu_shards);
\* the hash-space size the code takes from a global is the third parameter
cpu_sharding_subspace(subregion_number, num_cpu_shards, HASH_REGION_HASH_SIZE) ==
    IF subregion_number < 0 \/ ~(subregion_number < num_cpu_shards) THEN Rejected
    ELSE LET width == HASH_REGION_HASH_SIZE \div num_cpu_shards
             beg == width * subregion_number
             end == IF subregion_number + 1 = num_cpu_shards
                    THEN HASH_REGION_HASH_SIZE ELSE beg + width
         IN  [beg |-> beg, end |-> end, inner |-> key_range_universe]
\* a process about to ask for the subspaces of its CPU shards
CpuInputs ==
    \E h \in 1..MaxHashSpace, n \in 0..MaxCpuShards :
        /\ fnCall = [kind |-> "cpu_sharding_subspace", hash_size |-> h, num_cpu_shards |-> n]
        /\ fnResult = [kind |-> "regions", regions |-> <<>>]
\* one call, for a subregion number not asked for yet
cpu_sharding_subspace_call ==
    /\ fnCall.kind = "cpu_sharding_subspace"
    /\ \E i \in (0 - 1)..fnCall.num_cpu_shards :
           /\ i \notin DOMAIN fnResult.regions
           /\ fnResult' =
                  [fnResult EXCEPT !.regions =
                      [j \in DOMAIN fnResult.regions \cup {i} |->
                          IF j = i
                          THEN cpu_sharding_subspace(i, fnCall.num_cpu_shards, fnCall.hash_size)
                          ELSE fnResult.regions[j]]]
    /\ UNCHANGED <<fnCall, postconVars, shardVars, unshardVars, structVars>>
InitCpu ==
    /\ InitPostCon(NoBuild)
    /\ ShardsIdle
    /\ CpuInputs
    /\ StructIdle
NextCpu == cpu_sharding_subspace_call
SpecCpu == InitCpu /\ [][NextCpu]_vars

\* the subspaces computed so far, by subregion number
CpuCall == fnCall.kind = "cpu_sharding_subspace"
CpuRegions == fnResult.regions
CpuN == fnCall.num_cpu_shards
CpuValid == DOMAIN CpuRegions \cap (0..(CpuN - 1))

\* C22: for N >= 1 the subspaces of the subregions 0..N-1 have the universal key
\* range and hash intervals that are pairwise disjoint and contiguous, shard 0
\* beginning at 0 and every shard but the last being size div N wide; the last
\* ends at the hash-space size and so takes the remainder of the division; once
\* all are computed every hash value lies in exactly one; a subregion number
\* outside 0..N-1 is rejected.
C22_CpuShardingCoverage ==
    (CpuCall /\ CpuN >= 1) =>
        /\ \A i \in DOMAIN CpuRegions \ (0..(CpuN - 1)) : CpuRegions[i] = Rejected
        /\ \A i \in CpuValid :
               /\ CpuRegions[i] # Rejected
               /\ CpuRegions[i].inner = key_range_universe
               /\ CpuRegions[i].beg <= CpuRegions[i].end
               /\ i = 0 => CpuRegions[i].beg = 0
               /\ i < CpuN - 1 =>
                      CpuRegions[i].end - CpuRegions[i].beg = fnCall.hash_size \div CpuN
               /\ i = CpuN - 1 =>
                      /\ CpuRegions[i].end = fnCall.hash_size
                      /\ CpuRegions[i].end - CpuRegions[i].beg =
                             (fnCall.hash_size \div CpuN) + (fnCall.hash_size % CpuN)
               /\ (i + 1) \in CpuValid => CpuRegions[i].end = CpuRegions[i + 1].beg
               /\ \A j \in CpuValid \ {i} :
                      \/ CpuRegions[i].end <= CpuRegions[j].beg
                      \/ CpuRegions[j].end <= CpuRegions[i].beg
        /\ CpuValid = 0..(CpuN - 1) =>
               \A h \in 0..(fnCall.hash_size - 1) :
                   Cardinality({i \in CpuValid :
                                   CpuRegions[i].beg <= h /\ h < CpuRegions[i].end}) = 1

\* a hash space of 7 values over 3 CPU shards: widths 2, 2 and 3, and the two
\* subregion numbers outside 0..2 rejected
C22_Witness ==
    /\ CpuCall
    /\ fnCall.hash_size = 7
    /\ CpuN = 3
    /\ DOMAIN CpuRegions = (0 - 1)..3
    /\ CpuRegions[0 - 1] = Rejected
    /\ CpuRegions[3] = Rejected
    /\ CpuRegions[1] = [beg |-> 2, end |-> 4, inner |-> key_range_universe]
    /\ CpuRegions[2] = [beg |-> 4, end |-> 7, inner |-> key_range_universe]

\* --- sindex_key_range
\* a store_key_t is a string of at most MaxKeyLen bytes; a byte is 0..MaxByte,
\* MaxByte standing for 0xFF
MaxByte == 2
MaxKeyLen == 3
Bytes == 0..MaxByte
ByteKeys == UNION {[1..n -> Bytes] : n \in 0..MaxKeyLen}
\* store_key_t::max(): the longest key of maximal bytes
store_key_t_max == [j \in 1..MaxKeyLen |-> MaxByte]
\* the order of store_key_t: bytewise, a proper prefix first
RECURSIVE key_less(_, _)
key_less(a, b) ==
    IF b = <<>> THEN FALSE
    ELSE IF a = <<>> THEN TRUE
    ELSE IF a[1] # b[1] THEN a[1] < b[1]
    ELSE key_less(Tail(a), Tail(b))
\* std::string key_to_unescaped_str(const store_key_t &): the bytes of the key
key_to_unescaped_str(key) == key
\* lines 349-352: erase the trailing maximal bytes
RECURSIVE strip_trailing_max(_)
strip_trailing_max(str) ==
    IF Len(str) > 0 /\ str[Len(str)] = MaxByte
    THEN strip_trailing_max(SubSeq(str, 1, Len(str) - 1))
    ELSE str
sindex_key_range_no_increment(start, end) ==
    LET end_key_str == strip_trailing_max(key_to_unescaped_str(end))
    IN  [lb |-> "closed", l |-> start, rb |-> "open",
         r |-> IF Len(end_key_str) = 0 THEN store_key_t_max ELSE end_key_str]
\* key_range_t sindex_key_range(const store_key_t &start, const store_key_t &end)
sindex_key_range(start, end) ==
    LET end_key_str == strip_trailing_max(key_to_unescaped_str(end))
        end_key == IF Len(end_key_str) = 0 THEN store_key_t_max
                   ELSE [end_key_str EXCEPT ![Len(end_key_str)] = @ + 1]
    IN  [lb |-> "closed", l |-> start, rb |-> "open", r |-> end_key]
\* a secondary range from the empty key or a one-byte key up to any key
SindexRangeInputs ==
    \E s \in {<<>>, <<1>>}, e \in ByteKeys :
        /\ fnCall = [kind |-> "sindex_key_range", start |-> s, end |-> e]
        /\ fnResult = NoCall
sindex_key_range_call ==
    /\ fnCall.kind = "sindex_key_range"
    /\ fnResult = NoCall
    /\ fnResult' = sindex_key_range(fnCall.start, fnCall.end)
    /\ UNCHANGED <<fnCall, postconVars, shardVars, unshardVars, structVars>>
InitSindexRange ==
    /\ InitPostCon(NoBuild)
    /\ ShardsIdle
    /\ SindexRangeInputs
    /\ StructIdle
NextSindexRange == sindex_key_range_call
SpecSindexRange == InitSindexRange /\ [][NextSindexRange]_vars

SindexRangeDone == fnCall.kind = "sindex_key_range" /\ fnResult # NoCall
\* the right bound handed in and the successor computed for it
RightBound == fnCall.end
Successor == fnResult.r
IsPrefix(a, b) == Len(a) <= Len(b) /\ SubSeq(b, 1, Len(a)) = a
HasOtherByte(k) == \E j \in 1..Len(k) : k[j] # MaxByte
KeysBetween(a, b) == {k \in ByteKeys : key_less(a, k) /\ key_less(k, b)}
ClosedOpenFromStart ==
    fnResult.lb = "closed" /\ fnResult.l = fnCall.start /\ fnResult.rb = "open"

\* C23 as stated: for every right bound k the successor k' satisfies k < k' and
\* len(k') <= len(k), every key strictly between them has k as a prefix, and
\* the range is closed on the left and open on the right.
C23_Original ==
    SindexRangeDone =>
        /\ key_less(RightBound, Successor)
        /\ Len(Successor) <= Len(RightBound)
        /\ \A k \in KeysBetween(RightBound, Successor) : IsPrefix(RightBound, k)
        /\ ClosedOpenFromStart

\* C23 as the code has it: the range is closed at the start key and open at the
\* successor k'; every key strictly between k and k' has k as a prefix; when k
\* has a byte other than 0xFF, k' is k without its trailing 0xFF bytes and with
\* the last remaining byte incremented, so k < k' and len(k') <= len(k); when
\* k is empty or all 0xFF, k' is the maximal key, which is longer than k unless
\* k is the maximal key itself, and then k' = k.
C23_SuccessorOrMaxKey ==
    SindexRangeDone =>
        /\ ClosedOpenFromStart
        /\ \A k \in KeysBetween(RightBound, Successor) : IsPrefix(RightBound, k)
        /\ IF HasOtherByte(RightBound)
           THEN /\ key_less(RightBound, Successor)
                /\ Len(Successor) <= Len(RightBound)
                /\ Successor[Len(Successor)] = RightBound[Len(Successor)] + 1
                /\ IsPrefix(SubSeq(Successor, 1, Len(Successor) - 1), RightBound)
                /\ \A j \in (Len(Successor) + 1)..Len(RightBound) : RightBound[j] = MaxByte
           ELSE /\ Successor = store_key_t_max
                /\ Len(Successor) >= Len(RightBound)
                /\ IF RightBound = store_key_t_max
                   THEN Successor = RightBound
                   ELSE key_less(RightBound, Successor)

\* a right bound of one byte followed by two 0xFF bytes: the successor is the
\* one byte incremented
C23_Witness ==
    /\ SindexRangeDone
    /\ RightBound = <<1, MaxByte, MaxByte>>
    /\ Successor = <<2>>
    /\ fnCall.start = <<1>>

\* ------------------------------------------------- the drain loop, step by step
\* the positions of one iteration of the drain loop, in program order
DrainPositions == {"loop", "yielded", "acq_token", "acq_super", "acq_sblock",
                   "acq_sindexes", "wait_acq", "chunk"}
\* the positions from which a task steps to position p
StepsFrom(p) ==
    CASE p = "yielded" -> {"loop"}
      [] p = "acq_token" -> {"yielded", "cleanup"}
      [] p = "acq_super" -> {"yielded", "acq_token", "cleanup"}
      [] p = "acq_sblock" -> {"acq_super"}
      [] p = "acq_sindexes" -> {"acq_sblock"}
      [] p = "wait_acq" -> {"acq_sindexes"}
      [] p = "chunk" -> {"wait_acq"}
      [] p = "loop" -> {"scan", "chunk"}
      [] OTHER -> {}
\* the locks the claim names: write token, superblock, sindex block, sindex queue
HoldsIterationLocks(t) ==
    HeldLocks(t) \cap {"write_token", "superblock", "sindex_block", "sindex_queue"} # {}
\* task t is between the test of the loop condition and the end of the yield
AtYield(t) == pc[t] \in {"loop", "yielded"}
DrainStep(t) ==
    \* the iteration runs in program order: the yield comes first, once
    /\ (pc'[t] \in DrainPositions /\ pc'[t] # pc[t]) => pc[t] \in StepsFrom(pc'[t])
    /\ (pc[t] = "cleanup" /\ pc'[t] \in {"acq_token", "acq_super"}) => phase'[t] = "cleanup"
    /\ phase[t] = "cleanup" => phase'[t] = "cleanup" /\ pc'[t] \notin {"acq_sindexes", "loop"}
    \* nothing is held across the yield
    /\ AtYield(t) => ~HoldsIterationLocks(t)
    /\ (pc'[t] = "chunk" /\ pc[t] # "chunk") => chunk'[t] = 0
    \* a report is applied in the chunk loop only, and counted
    /\ applied'[t] # applied[t] =>
           /\ pc[t] = "chunk" /\ pc'[t] = "chunk"
           /\ Len(applied'[t]) = Len(applied[t]) + 1
           /\ chunk'[t] = chunk[t] + 1
           /\ chunk'[t] <= MAX_CHUNK_SIZE
    \* the chunk loop ends in the finalize or in the release of what was acquired
    /\ (pc[t] = "chunk" /\ pc'[t] # "chunk") =>
           \/ pc'[t] = "dereg"
           \/ pc'[t] = "loop" /\ ~InLine(sblockLine', t) /\ ~InLine(qmutexLine', t)
                              /\ accessible'[t] = {}

\* C24: an iteration of the drain loop goes through its yield once, first, and
\* holding no write token, superblock, sindex block or sindex-queue lock; it
\* then applies reports in its chunk loop only, counted from 0 and never more
\* than MAX_CHUNK_SIZE = 10, and releases what it acquired before the next
\* iteration; so at most 10 reports are applied between two yields.
C24_YieldThenBoundedChunk == [][\A t \in Tasks : DrainStep(t)]_vars

\* a task at its yield that has applied a full chunk and has reports left
C24_Witness ==
    \E t \in Tasks :
        /\ pc[t] = "yielded"
        /\ Len(applied[t]) = MAX_CHUNK_SIZE
        /\ chunk[t] = MAX_CHUNK_SIZE
        /\ Len(mod_queue[t]) > 0

\* ------------------------------------------- a build beside an endless writer
\* One task builds index 1 while a writer inserts and deletes one row in turn,
\* for ever. The drain signal is never pulsed and no index is dropped. The ids
\* of the reports and the logs of pushed and applied ids are left out, so that
\* the writer can go on without end; a write begins only while every queue holds
\* fewer than QueueCap reports.
QueueCap == MAX_CHUNK_SIZE + 1
EndlessWriter == [targets |-> [t \in Tasks |-> IF t = 1 THEN {1} ELSE {}],
                  writes |-> 0, drops |-> 0, backfills |-> 0,
                  domain |-> {NumKeys} \X {0, 1}]
InitLive ==
    /\ InitPostCon(EndlessWriter)
    /\ ShardsIdle
    /\ LibIdle

\* WriteBegin without a budget of writes
WriteBeginLive(k, v) ==
    /\ wpc = "idle"
    /\ BuildPending
    /\ \A t \in Tasks : Len(mod_queue[t]) < QueueCap
    /\ <<k, v>> \in wdomain
    /\ v /= primary[k]
    /\ wreq' = [key |-> k, val |-> v]
    /\ tokenLine' = Append(tokenLine, Writer)
    /\ wpc' = "acq"
    /\ UNCHANGED <<shardVars, unshardVars, libVars, storeVars, taskVars, superblock, sblockLine,
                   qmutexLine, rwLine, drainerLocks, wreport, writesLeft, dropsLeft, wdomain,
                   backfillVars, histVars, drainSignal>>

\* WriteCommit without the commit counter
WriteCommitLive ==
    /\ wpc = "commit"
    /\ AtHead(sblockLine, Writer)
    /\ wreport' = [id |-> 0, key |-> wreq.key, old |-> primary[wreq.key], new |-> wreq.val]
    /\ primary' = [primary EXCEPT ![wreq.key] = wreq.val]
    /\ wpc' = "enqueue"
    /\ UNCHANGED <<shardVars, unshardVars, libVars, index, ready, deleted, sindex_queues, mod_queue,
                   taskVars, lockVars, wreq, writesLeft, dropsLeft, wdomain, backfillVars,
                   histVars, drainSignal>>

\* WriteEnqueue without the log of pushed ids
WriteEnqueueLive ==
    /\ wpc = "enqueue"
    /\ qmutexLine = <<>>
    /\ mod_queue' = [t \in Tasks |->
                       IF t \in sindex_queues THEN Append(mod_queue[t], wreport)
                       ELSE mod_queue[t]]
    /\ sblockLine' = Tail(sblockLine)
    /\ wpc' = "idle"
    /\ UNCHANGED <<shardVars, unshardVars, libVars, primary, index, ready, deleted, sindex_queues,
                   taskVars, tokenLine, superblock, qmutexLine, rwLine, drainerLocks, wreq,
                   wreport, writesLeft, dropsLeft, wdomain, backfillVars, histVars, drainSignal>>

\* lines 255-265 without the log of applied ids
DrainPopLive(t) ==
    /\ pc[t] = "chunk"
    /\ chunk[t] < MAX_CHUNK_SIZE
    /\ Len(mod_queue[t]) > 0
    /\ mod_queue' = [mod_queue EXCEPT ![t] = Tail(mod_queue[t])]
    /\ index' = [i \in Indexes |->
                   IF i \in accessible[t]
                   THEN ApplyReport(index[i], i, Head(mod_queue[t])) ELSE index[i]]
    /\ chunk' = [chunk EXCEPT ![t] = chunk[t] + 1]
    /\ UNCHANGED <<shardVars, unshardVars, libVars, primary, ready, deleted, sindex_queues, targets,
                   pc, phase, scanPos, accessible, deregVia, lockVars, writerVars,
                   backfillVars, histVars, drainSignal>>

\* the steps of the build task on the path that ends in the finalize
TaskStepLive(t) ==
    \/ TaskStart(t)
    \/ ScanVisit(t)
    \/ ScanReturn(t)
    \/ LoopCheck(t)
    \/ Resume(t)
    \/ TokenWake(t)
    \/ AcquireSuperblock(t)
    \/ AcquireSindexBlock(t)
    \/ AcquireSindexes(t)
    \/ WaitAcq(t)
    \/ DrainPopLive(t)
    \/ FinalCheck(t)
    \/ Deregister(t)
\* the steps of a write that has begun
WriterStepLive ==
    \/ WriteAcquire
    \/ WriteCommitLive
    \/ WriteEnqueueLive
NextLive ==
    \/ \E t \in Tasks : bring_sindexes_up_to_date(t)
    \/ \E t \in Tasks : TaskStepLive(t)
    \/ \E k \in Keys, v \in 0..MaxVal : WriteBeginLive(k, v)
    \/ WriterStepLive
\* The scheduler resumes every runnable coroutine and every lock is handed to
\* the head of its line: a task step or a step of a begun write that stays
\* enabled is taken. Nothing obliges the writer to begin a write, or to stop.
SpecLive ==
    /\ InitLive
    /\ [][NextLive]_vars
    /\ \A t \in Tasks : WF_vars(TaskStepLive(t))
    /\ WF_vars(WriterStepLive)

\* the stages of a build
Registered(t) == pc[t] = "spawned" /\ t \in sindex_queues
Scanning(t) == pc[t] = "scan"
Draining(t) == pc[t] = "loop" /\ scanPos[t] = NumKeys
Finalized(t) ==
    /\ pc[t] = "done"
    /\ deregVia[t] = "standard"
    /\ t \notin sindex_queues
    /\ mod_queue[t] = <<>>
    /\ \A i \in targets[t] : ready[i]
WriterQuiet == wpc = "idle"

\* C25 as stated: with no drain signal, no index dropped and every lock request
\* granted in the end, a registered build goes on to scan, to drain and to the
\* finalize (queue empty, every target ready, queue deregistered), whatever the
\* writers enqueue meanwhile.
C25_Original ==
    \A t \in Tasks :
        /\ Registered(t) ~> Scanning(t)
        /\ Scanning(t) ~> Draining(t)
        /\ Draining(t) ~> Finalized(t)

\* C25 as the code has it: a registered build goes on to scan and to drain; it
\* reaches the finalize if the writers stop enqueuing from some point on. The
\* loop ends only when it finds the queue empty after a chunk of at most ten
\* reports, which a writer that keeps refilling the queue prevents for ever.
C25_FinalizedOnceWritersRest ==
    \A t \in Tasks :
        /\ Registered(t) ~> Scanning(t)
        /\ Scanning(t) ~> Draining(t)
        /\ (<>[]WriterQuiet) => (Draining(t) ~> Finalized(t))

\* a finalized build whose last iteration applied reports, while the row the
\* writer works on has been inserted
C25_Witness ==
    /\ Finalized(1)
    /\ chunk[1] > 0
    /\ primary[NumKeys] = 1
    /\ index[1] # {}

\* post_construct_and_drain_queue has ended for task t, and its queue object
\* with it
Ended(t) == pc[t] \in {"done", "aborted"}

\* C26: on every path by which post_construct_and_drain_queue ends, the queue
\* has been deregistered from the store, the standard or the emergency way, and
\* is registered no more; and a queue is deregistered once only.
C26_DeregisteredOnce ==
    [][\A t \in Tasks :
          /\ Ended(t)' => (deregVia'[t] \in {"standard", "emergency"}
                           /\ t \notin sindex_queues')
          /\ deregVia[t] # "none" => (deregVia'[t] = deregVia[t]
                                      /\ t \notin sindex_queues')]_vars

\* ------------------------------------------------------ dynamic_pool_alloc_t
\* DYNAMIC_POOL_MAX_ALLOCS (20 in config.hpp) and DYNAMIC_POOL_INITIAL_NOBJECTS
\* (100) are scaled down to MaxAllocs and InitialNObjects. super_alloc_t is a
\* template parameter: a sub-allocator is its capacity and the number of its
\* blocks in use; malloc on a full one returns NULL, and a block is in_range of
\* the sub-allocator that served it and of no other.
MaxAllocs == 3
InitialNObjects == 2
\* unsigned int compute_alloc_nobjects(int alloc)
compute_alloc_nobjects(alloc) == InitialNObjects * (2 ^ alloc)
\* new super_alloc_t(nobjects, object_size)
super_alloc_t(nobjects) == [nobjects |-> nobjects, in_use |-> 0]
HasRoom(a) == a.in_use < a.nobjects
\* the dynamic pool as a record; allocs[i] of the code is allocs[i + 1] here
DynPool == [allocs |-> allocs, nallocs |-> nallocs, smallest_free |-> smallest_free]
\* dynamic_pool_alloc_t(size_t _object_size)
dynamic_pool_alloc_t ==
    [allocs |-> <<super_alloc_t(compute_alloc_nobjects(0))>>, nallocs |-> 1, smallest_free |-> 0]
\* allocs[i]->malloc(size) succeeding
Served(d, i, sf) ==
    [pool |-> [d EXCEPT !.allocs[i + 1].in_use = @ + 1, !.smallest_free = sf],
     null |-> FALSE, alloc |-> i]
\* void *malloc(size_t size): the pool after the call and the block returned,
\* named by the sub-allocator that served it
dynamic_pool_malloc(d) ==
    IF HasRoom(d.allocs[d.smallest_free + 1])
    THEN Served(d, d.smallest_free, d.smallest_free)
    ELSE LET roomy == {i \in d.smallest_free..(d.nallocs - 1) : HasRoom(d.allocs[i + 1])}
         IN  IF roomy # {}
             THEN LET i == CHOOSE i \in roomy : \A j \in roomy : i <= j
                  IN  Served(d, i, i)
             ELSE IF d.nallocs + 1 <= MaxAllocs
             THEN LET grown == [allocs |-> Append(d.allocs,
                                              super_alloc_t(compute_alloc_nobjects(d.nallocs))),
                                nallocs |-> d.nallocs + 1,
                                smallest_free |-> d.nallocs]
                  IN  IF HasRoom(grown.allocs[d.nallocs + 1])
                      THEN Served(grown, d.nallocs, d.nallocs)
                      ELSE [pool |-> grown, null |-> TRUE, alloc |-> 0]
             ELSE [pool |-> d, null |-> TRUE, alloc |-> 0]
dynamic_pool_free_keep_smallest(d, i) ==
    IF i \in 0..(d.nallocs - 1)
    THEN [d EXCEPT !.allocs[i + 1].in_use = @ - 1]
    ELSE d
\* void free(void *ptr), ptr being a block of sub-allocator i; a pointer in the
\* range of no sub-allocator has i outside 0..nallocs-1
dynamic_pool_free(d, i) ==
    IF i \in 0..(d.nallocs - 1)
    THEN [d EXCEPT !.allocs[i + 1].in_use = @ - 1,
                   !.smallest_free = IF i < @ THEN i ELSE @]
    ELSE d
InitDynPool ==
    /\ InitPostCon(NoBuild)
    /\ ShardsIdle
    /\ CallIdle /\ PoolIdle /\ FsckIdle
    /\ allocs = dynamic_pool_alloc_t.allocs
    /\ nallocs = dynamic_pool_alloc_t.nallocs
    /\ smallest_free = dynamic_pool_alloc_t.smallest_free
    /\ dyn_last = [op |-> "none"]
dyn_malloc ==
    LET r == dynamic_pool_malloc(DynPool)
    IN  /\ allocs' = r.pool.allocs
        /\ nallocs' = r.pool.nallocs
        /\ smallest_free' = r.pool.smallest_free
        /\ dyn_last' = [op |-> "malloc", null |-> r.null, alloc |-> r.alloc]
        /\ UNCHANGED <<postconVars, shardVars, unshardVars, callVars, poolVars, fsckVars>>
\* the user frees a block it holds, or a pointer that is no block of the pool
dyn_free ==
    \E i \in 0..nallocs :
        /\ i < nallocs => allocs[i + 1].in_use > 0
        /\ LET d == dynamic_pool_free(DynPool, i)
           IN  /\ allocs' = d.allocs
               /\ nallocs' = d.nallocs
               /\ smallest_free' = d.smallest_free
        /\ dyn_last' = [op |-> "free", null |-> ~(i < nallocs), alloc |-> i]
        /\ UNCHANGED <<postconVars, shardVars, unshardVars, callVars, poolVars, fsckVars>>
NextDynPool ==
    \/ dyn_malloc
    \/ dyn_free
SpecDynPool == InitDynPool /\ [][NextDynPool]_vars

Full(a) == a.in_use = a.nobjects
ReturnedNull == dyn_last.op = "malloc" /\ dyn_last.null

\* C27: after any sequence of malloc and free, 1 <= nallocs <= the maximum,
\* smallest_free < nallocs, sub-allocator i holds the initial number of objects
\* times 2^i, and every sub-allocator below smallest_free is full; and when
\* malloc has returned NULL every sub-allocator is full and nallocs is at the
\* maximum.
C27_DynamicPoolInvariant ==
    /\ 1 <= nallocs /\ nallocs <= MaxAllocs
    /\ Len(allocs) = nallocs
    /\ 0 <= smallest_free /\ smallest_free < nallocs
    /\ \A i \in 0..(nallocs - 1) :
           /\ allocs[i + 1].nobjects = InitialNObjects * (2 ^ i)
           /\ 0 <= allocs[i + 1].in_use /\ allocs[i + 1].in_use <= allocs[i + 1].nobjects
           /\ i < smallest_free => Full(allocs[i + 1])
    /\ ReturnedNull =>
           /\ nallocs = MaxAllocs
           /\ \A i \in 0..(nallocs - 1) : Full(allocs[i + 1])

\* a block of the first sub-allocator has been freed while the later ones are
\* full: smallest_free is back at 0 below a full sub-allocator
C27_Witness ==
    /\ nallocs = MaxAllocs
    /\ dyn_last.op = "free" /\ dyn_last.alloc = 0 /\ ~dyn_last.null
    /\ smallest_free = 0
    /\ Full(allocs[2]) /\ Full(allocs[3])
    /\ allocs[1].in_use = allocs[1].nobjects - 1

\* -------------------------------------------------------------- pool_alloc_t
\* An address is a number, NULL is 0. The pool's memory is one word per block,
\* the place of free_node_t::next; the user may write into a block it holds.
MaxObjects == 3
NULL == 0
ObjectSizes == {8, 16}
MemAddresses == {16, 64}
BlocksOf(p) == {p.mem + (i * p.object_size) : i \in 0..(p.nobjects - 1)}
\* pool_alloc_t(size_t _nobjects, size_t _object_size), mem being what
\* super_alloc_t::malloc(pool_size) returned
pool_alloc_t(nobjects, object_size, mem) ==
    [nobjects |-> nobjects, object_size |-> object_size, mem |-> mem,
     free_list |-> mem,
     next |-> [a \in {mem + (i * object_size) : i \in 0..(nobjects - 1)} |->
                  IF a = mem + ((nobjects - 1) * object_size) THEN NULL
                  ELSE a + object_size]]
pool_alloc_malloc_keep_head(p) == [pool |-> p, addr |-> p.free_list]
\* void *malloc(size_t size): the pool after the call and the address returned
pool_alloc_malloc(p) ==
    LET addr == p.free_list
    IN  [pool |-> IF addr # NULL THEN [p EXCEPT !.free_list = p.next[p.free_list]] ELSE p,
         addr |-> addr]
\* void free(void *ptr)
pool_alloc_free(p, ptr) == [p EXCEPT !.next[ptr] = p.free_list, !.free_list = ptr]
\* bool in_range(void *ptr)
in_range(p, ptr) == ptr >= p.mem /\ ptr < p.mem + (p.object_size * p.nobjects)
InitPool ==
    /\ InitPostCon(NoBuild)
    /\ ShardsIdle
    /\ CallIdle /\ DynIdle /\ FsckIdle
    /\ \E n \in 1..MaxObjects, s \in ObjectSizes, m \in MemAddresses :
           pool = pool_alloc_t(n, s, m)
    /\ pool_out = {}
    /\ pool_last = [op |-> "none", ptr |-> NULL, tick |-> 0]
pool_malloc ==
    LET r == pool_alloc_malloc(pool)
    IN  /\ pool' = r.pool
        /\ pool_out' = IF r.addr # NULL THEN pool_out \cup {r.addr} ELSE pool_out
        /\ pool_last' = [op |-> "malloc", ptr |-> r.addr, tick |-> 1 - pool_last.tick]
        /\ UNCHANGED <<postconVars, shardVars, unshardVars, callVars, dynVars, fsckVars>>
\* only a block that is allocated is freed
pool_free ==
    \E ptr \in pool_out :
        /\ pool' = pool_alloc_free(pool, ptr)
        /\ pool_out' = pool_out \ {ptr}
        /\ pool_last' = [op |-> "free", ptr |-> ptr, tick |-> 1 - pool_last.tick]
        /\ UNCHANGED <<postconVars, shardVars, unshardVars, callVars, dynVars, fsckVars>>
\* the user writes into a block it holds
pool_user_write ==
    \E ptr \in pool_out, w \in {NULL, pool.mem} :
        /\ pool.next[ptr] # w
        /\ pool' = [pool EXCEPT !.next[ptr] = w]
        /\ UNCHANGED <<pool_out, pool_last, postconVars, shardVars, unshardVars, callVars,
                       dynVars, fsckVars>>
NextPool ==
    \/ pool_malloc
    \/ pool_free
    \/ pool_user_write
SpecPool == InitPool /\ [][NextPool]_vars

\* this step is a call of malloc
MallocStep == pool_last'.tick # pool_last.tick /\ pool_last'.op = "malloc"
Returned == pool_last'.ptr

\* C28: whatever the sequence of malloc and free of allocated blocks, malloc
\* never returns a block that is allocated; a block it returns starts inside
\* the pool at a multiple of object_size and is in_range; it returns NULL
\* exactly when nobjects blocks are allocated; and after a free it returns the
\* block just freed.
C28_PoolMalloc ==
    [][MallocStep =>
          /\ Returned # NULL =>
                 /\ Returned \notin pool_out
                 /\ in_range(pool, Returned)
                 /\ (Returned - pool.mem) % pool.object_size = 0
                 /\ pool_out' = pool_out \cup {Returned}
          /\ Returned = NULL <=> Cardinality(pool_out) = pool.nobjects
          /\ pool_last.op = "free" => Returned = pool_last.ptr]_vars

\* the first of three blocks was freed and allocated again while the second
\* stayed allocated and the third has never been handed out
C28_Witness ==
    /\ pool.nobjects = 3
    /\ pool_last.op = "malloc"
    /\ pool_last.ptr = pool.mem
    /\ pool_out = {pool.mem, pool.mem + pool.object_size}
    /\ pool.free_list = pool.mem + (2 * pool.object_size)
    /\ pool.next[pool.mem] = pool.mem + (2 * pool.object_size)

\* ------------------------------------------------- fsck: check_subtree_leaf_node
\* A key is a number; a leaf is the keys of its pairs in slot order, with
\* whether every pair lies inside the block (leaf_node_inspect_range).
MaxLeafKeys == 2
MaxKeyValue == 3
MaxProxies == 2
LeafKeys == 0..MaxKeyValue
Leaves == UNION {[1..n -> LeafKeys] : n \in 0..MaxLeafKeys}
\* btree_key_value_store_t::hash
store_hash(key) == ((3 * key) + 1) % 8
\* the slice contexts: a raw slice, or slice global_slice_id of n_proxies
SliceContexts ==
    {[multiplexed |-> FALSE, global_slice_id |-> 0, n_proxies |-> 1]}
        \cup {[multiplexed |-> TRUE, global_slice_id |-> g, n_proxies |-> n] :
                 n \in 1..MaxProxies, g \in 0..(MaxProxies - 1)}
\* bool raw_slicecx_t::is_valid_key, bool multiplexed_slicecx_t::is_valid_key
is_valid_key(cx, key) ==
    IF cx.multiplexed THEN store_hash(key) % cx.n_proxies = cx.global_slice_id ELSE TRUE
\* explicit node_error(block_id_t block_id)
node_error == [value_out_of_buf |-> FALSE, keys_in_wrong_slice |-> FALSE]
\* line 1060 over the pairs from i on: errs->keys_in_wrong_slice |= cx.is_valid_key(pair->key)
RECURSIVE leaf_key_loop(_, _, _, _)
leaf_key_loop(cx, keys, i, errs) ==
    IF i > Len(keys) THEN errs
    ELSE leaf_key_loop(cx, keys, i + 1,
                       [errs EXCEPT !.keys_in_wrong_slice = @ \/ is_valid_key(cx, keys[i])])
\* void check_subtree_leaf_node(cx, buf, lo, hi, tree_errs, errs)
check_subtree_leaf_node(cx, buf, errs) ==
    IF Len(buf.keys) > 0 /\ ~buf.in_range
    THEN [errs EXCEPT !.value_out_of_buf = TRUE]
    ELSE leaf_key_loop(cx, buf.keys, 1, errs)
FsckLeafInputs ==
    \E cx \in SliceContexts, ks \in Leaves, ok \in BOOLEAN :
        /\ cx.global_slice_id < cx.n_proxies
        /\ fnCall = [kind |-> "check_subtree_leaf_node", cx |-> cx,
                     buf |-> [keys |-> ks, in_range |-> ok]]
        /\ fnResult = NoCall
check_subtree_leaf_node_call ==
    /\ fnCall.kind = "check_subtree_leaf_node"
    /\ fnResult = NoCall
    /\ fnResult' = check_subtree_leaf_node(fnCall.cx, fnCall.buf, node_error)
    /\ UNCHANGED <<fnCall, postconVars, shardVars, unshardVars, structVars>>
InitFsckLeaf ==
    /\ InitPostCon(NoBuild)
    /\ ShardsIdle
    /\ StructIdle
    /\ FsckLeafInputs
NextFsckLeaf == check_subtree_leaf_node_call
SpecFsckLeaf == InitFsckLeaf /\ [][NextFsckLeaf]_vars

LeafChecked == fnCall.kind = "check_subtree_leaf_node" /\ fnResult # NoCall
\* key belongs to the slice being checked
BelongsToSlice(key) ==
    ~fnCall.cx.multiplexed
        \/ store_hash(key) % fnCall.cx.n_proxies = fnCall.cx.global_slice_id

\* C29: after the leaf check the node's keys_in_wrong_slice flag is set exactly
\* when some key of the leaf does not belong to the slice being checked, and so
\* never for a raw slice and never for a leaf whose keys all belong to it.
C29_WrongSliceFlag ==
    LeafChecked =>
        (fnResult.keys_in_wrong_slice <=>
            \E i \in 1..Len(fnCall.buf.keys) : ~BelongsToSlice(fnCall.buf.keys[i]))

\* ------------------------------------------------- fsck: btree_block_t::init
\* The file holds block 0, drawn freely, and block 1, a healthy block without
\* patches; ser_block_id 2 is past the end of block_info. A patch is its
\* transaction id and its place in the list; the buf of a block is the places
\* of the patches applied to it, in the order applied. The slice is a raw one:
\* to_ser_block_id is the identity.
MaxTx == 3
MaxPatches == 2
NULL_SER_TRANSACTION_ID == 0
FIRST_SER_TRANSACTION_ID == 1
TxIds == NULL_SER_TRANSACTION_ID..MaxTx
PatchLists == UNION {[1..n -> FIRST_SER_TRANSACTION_ID..MaxTx] : n \in 0..MaxPatches}
HealthyBlock == [readable |-> TRUE, transaction_id |-> FIRST_SER_TRANSACTION_ID, patches |-> <<>>]
FsckFiles ==
    \E r \in BOOLEAN, tx \in TxIds, ps \in PatchLists, mtx \in {MaxTx - 1, MaxTx},
       ign \in BOOLEAN, hv \in BOOLEAN :
        /\ fsck_file = [blocks |-> <<[readable |-> r, transaction_id |-> tx, patches |-> ps],
                                     HealthyBlock>>,
                        metablock_transaction_id |-> mtx,
                        ignore_diff_log |-> ign]
        /\ block_info = <<[has_value |-> hv, transaction_id |-> NULL_SER_TRANSACTION_ID],
                          [has_value |-> TRUE, transaction_id |-> NULL_SER_TRANSACTION_ID]>>
Failed(e) == [ok |-> FALSE, err |-> e, buf |-> <<>>, info |-> block_info]
\* lines 298-311 from patch i on: first_matching_id is declared inside the loop
\* body and is NULL_SER_TRANSACTION_ID at the test of every iteration
RECURSIVE replay_patches(_, _, _, _)
replay_patches(patches, realbuf_tx, i, buf) ==
    IF i > Len(patches) THEN [mismatch |-> FALSE, buf |-> buf]
    ELSE LET first_matching_id == NULL_SER_TRANSACTION_ID
         IN  IF patches[i] >= realbuf_tx
             THEN IF first_matching_id = NULL_SER_TRANSACTION_ID
                  THEN replay_patches(patches, realbuf_tx, i + 1, Append(buf, i))
                  ELSE IF first_matching_id # patches[i]
                  THEN [mismatch |-> TRUE, buf |-> buf]
                  ELSE replay_patches(patches, realbuf_tx, i + 1, Append(buf, i))
             ELSE replay_patches(patches, realbuf_tx, i + 1, buf)
\* bool btree_block_t::init(slicecx_t &cx, block_id_t block_id): what init
\* returned, err, the buf loaded and knog->block_info after the call
btree_block_init(ser_block_id) ==
    IF ser_block_id >= Len(block_info) THEN Failed("no_block")
    ELSE LET info == block_info[ser_block_id + 1]
             realbuf == fsck_file.blocks[ser_block_id + 1]
             tx_id == realbuf.transaction_id
             played == IF fsck_file.ignore_diff_log
                       THEN [mismatch |-> FALSE, buf |-> <<>>]
                       ELSE replay_patches(realbuf.patches, tx_id, 1, <<>>)
         IN  IF ~info.has_value THEN Failed("no_block")
             ELSE IF info.transaction_id # NULL_SER_TRANSACTION_ID THEN Failed("already_accessed")
             ELSE IF ~realbuf.readable THEN Failed("raw_block_err")
             ELSE IF tx_id < FIRST_SER_TRANSACTION_ID THEN Failed("transaction_id_invalid")
             ELSE IF tx_id > fsck_file.metablock_transaction_id
             THEN Failed("transaction_id_too_large")
             ELSE IF played.mismatch
             THEN [ok |-> FALSE, err |-> "patch_transaction_id_mismatch", buf |-> played.buf,
                   info |-> block_info]
             ELSE [ok |-> TRUE, err |-> "none", buf |-> played.buf,
                   info |-> [block_info EXCEPT ![ser_block_id + 1].transaction_id = tx_id]]
InitFsckBlock ==
    /\ InitPostCon(NoBuild)
    /\ ShardsIdle
    /\ CallIdle /\ PoolIdle /\ DynIdle
    /\ FsckFiles
    /\ blk = [block_id |-> 0, ok |-> FALSE, err |-> "unloaded", buf |-> <<>>, tick |-> 0]
fsck_init ==
    \E block_id \in 0..Len(block_info) :
        LET r == btree_block_init(block_id)
        IN  /\ blk' = [block_id |-> block_id, ok |-> r.ok, err |-> r.err, buf |-> r.buf,
                       tick |-> 1 - blk.tick]
            /\ block_info' = r.info
            /\ UNCHANGED <<fsck_file, postconVars, shardVars, unshardVars, callVars,
                           poolVars, dynVars>>
NextFsckBlock == fsck_init
SpecFsckBlock == InitFsckBlock /\ [][NextFsckBlock]_vars

\* this step is a call of init, of block InitId
InitStep == blk'.tick # blk.tick
InitId == blk'.block_id
InFile == InitId < Len(block_info)
FileBlock == fsck_file.blocks[InitId + 1]
\* the places, in list order, of the patches whose transaction id is >= the block's
RECURSIVE ApplicableFrom(_, _, _)
ApplicableFrom(patches, tx, i) ==
    IF i > Len(patches) THEN <<>>
    ELSE (IF patches[i] >= tx THEN <<i>> ELSE <<>>) \o ApplicableFrom(patches, tx, i + 1)
Applicable == ApplicableFrom(FileBlock.patches, FileBlock.transaction_id, 1)
\* init gets as far as the replay of the block's patch list
ReachesReplay ==
    /\ InFile
    /\ block_info[InitId + 1].has_value
    /\ block_info[InitId + 1].transaction_id = NULL_SER_TRANSACTION_ID
    /\ FileBlock.readable
    /\ FileBlock.transaction_id >= FIRST_SER_TRANSACTION_ID
    /\ FileBlock.transaction_id <= fsck_file.metablock_transaction_id
    /\ ~fsck_file.ignore_diff_log
MixedApplicable ==
    \E i, j \in 1..Len(Applicable) :
        FileBlock.patches[Applicable[i]] # FileBlock.patches[Applicable[j]]
AppliesApplicable == blk'.ok => blk'.buf = (IF ReachesReplay THEN Applicable ELSE <<>>)
RecordsOnSuccess ==
    IF blk'.ok
    THEN block_info' = [block_info EXCEPT ![InitId + 1].transaction_id =
                                              FileBlock.transaction_id]
    ELSE block_info' = block_info
SecondInitFails ==
    (InFile /\ block_info[InitId + 1].transaction_id # NULL_SER_TRANSACTION_ID) =>
        (~blk'.ok /\ blk'.err = "already_accessed")

\* C30: init applies in list order exactly the patches whose transaction id is
\* >= the block's; it fails with patch_transaction_id_mismatch whenever two of
\* those patches carry different transaction ids; it stores the block's
\* transaction id in block_info only when it succeeds; and an init of a block
\* already accessed fails with already_accessed.
C30_PatchReplay ==
    [][InitStep =>
          /\ AppliesApplicable
          /\ (ReachesReplay /\ MixedApplicable) =>
                 (~blk'.ok /\ blk'.err = "patch_transaction_id_mismatch")
          /\ RecordsOnSuccess
          /\ SecondInitFails]_vars
====
